---- MODULE Spec2Model ----
(***************************************************************************)
(* Fake Ops Center: the synthetic feeds (core/feeds.py), the incident      *)
(* model (core/models.py), the event bus (core/bus.py) and the asyncio     *)
(* scheduling of the feed tasks, as a state machine.                       *)
(*                                                                         *)
(* Time is counted in whole seconds (clock).  Percentages and thresholds   *)
(* are integers out of 100.  Incident objects live in a heap and are       *)
(* referred to by their index, because the tracker, the emitted list and   *)
(* the subscribers all hold the same Python object.                        *)
(***************************************************************************)
EXTENDS Integers, Sequences, FiniteSets, TLC

VARIABLES
    state,      \* FeedState: [seed, rng]
    clock,      \* datetime.now(UTC) / time.time(), in seconds
    heap,       \* the Incident objects ever constructed, by reference
    tracker,    \* IncidentsFeed.tracker: [active, counter]
    emitted,    \* the list returned by the last IncidentsFeed.step()
    baseline,   \* number of incidents constructed before the last reset()
    twin,       \* a second IncidentsFeed built with the same seed and configuration
    trace,      \* what the two feeds emitted, step by step
    metrics,    \* MetricsFeed: [cpu, mem]
    running,    \* BaseFeed._running of each feed
    taskOf,     \* BaseFeed._task of each feed: a task id, 0 for None
    tasks,      \* the asyncio tasks: [feed, st, must_cancel, wake]
    ready,      \* the loop's queue of ready callbacks, first in first out
    timers,     \* the tasks waiting in sleep(), in the order of their deadlines
    launch,     \* where app._launch stands: [pc, feed, how]
    cur,        \* the task whose _run iteration is executing, 0 if none
    pending_pub,\* what the executing iteration has still to publish
    delivered,  \* what the executing iteration has published
    paused,     \* MainWindow._paused
    lastCall,   \* the last of start(), stop(), reset() made on the controller
    ops         \* number of calls made by clients

engineVars == <<state, clock, heap, tracker, emitted, baseline>>
twinVars == <<twin, trace>>
schedVars == <<metrics, running, taskOf, tasks, ready, timers, launch, cur, pending_pub,
               delivered, paused, lastCall, ops>>
vars == <<engineVars, twinVars, schedVars>>

(***************************************************************************)
(* Bounds of the model.                                                    *)
(***************************************************************************)
MaxClock == 4
MaxObjects == 3
MaxSteps == 2

(***************************************************************************)
(* Configuration (core/config.py), an input of the program.                *)
(***************************************************************************)
AutoresolveLow == 1
AutoresolveHigh == 3
GridWidth == 2
GridHeight == 2

(***************************************************************************)
(* models.py                                                               *)
(***************************************************************************)
IncidentStatus == <<"new", "acknowledged", "in_progress", "resolved">>
IncidentSeverity == <<"low", "med", "high", "critical">>

REGIONS == <<"us-east", "us-west", "eu-central", "ap-south", "sa-east">>
INCIDENT_TYPES == <<"network", "database", "compute", "storage", "security">>

\* str.title() on the category names
Title(s) ==
    CASE s = "network" -> "Network"
      [] s = "database" -> "Database"
      [] s = "compute" -> "Compute"
      [] s = "storage" -> "Storage"
      [] s = "security" -> "Security"

advance_status_cycling(status) ==
    CASE status = "new" -> "acknowledged"
      [] status = "acknowledged" -> "in_progress"
      [] status = "in_progress" -> "resolved"
      [] OTHER -> "new"

advance_status_skipping(status) ==
    CASE status = "new" -> "in_progress"
      [] status = "acknowledged" -> "in_progress"
      [] status = "in_progress" -> "resolved"
      [] OTHER -> status

\* Incident.advance_status: the status after the call
advance_status(status) ==
    CASE status = "new" -> "acknowledged"
      [] status = "acknowledged" -> "in_progress"
      [] status = "in_progress" -> "resolved"
      [] OTHER -> status

Incident_advance_status_restamped(inc, now) ==
    [inc EXCEPT !.status = advance_status(inc.status),
                !.acknowledged = IF inc.status = "new" THEN TRUE ELSE @,
                !.last_update = now,
                !.timestamp = now]

\* Incident.advance_status applied to an incident object at time now
Incident_advance_status(inc, now) ==
    [inc EXCEPT !.status = advance_status(inc.status),
                !.acknowledged = IF inc.status = "new" THEN TRUE ELSE @,
                !.last_update = now]

can_autoresolve_strict(inc, now) ==
    IF inc.autoresolve_after = -1
    THEN FALSE
    ELSE (now - inc.last_update) > inc.autoresolve_after

\* Incident.can_autoresolve at time now; autoresolve_after = -1 stands for None
can_autoresolve(inc, now) ==
    IF inc.autoresolve_after = -1
    THEN FALSE
    ELSE (now - inc.last_update) >= inc.autoresolve_after

(***************************************************************************)
(* The shared generator, np.random.default_rng(seed): a deterministic      *)
(* generator whose state is a function of the seed and of the number of    *)
(* draws.  Every primitive advances the state once and derives its value   *)
(* from the new state u / RngModulus in [0, 1).                            *)
(***************************************************************************)
RngModulus == 16
RngMultiplier == 5
RngIncrement == 3

default_rng(seed) == seed % RngModulus
RngNext(g) == (RngMultiplier * g + RngIncrement) % RngModulus

\* rng.random(), as a percentage 0..99
rng_random(g) == (RngNext(g) * 100) \div RngModulus
\* rng.integers(lo, hi): lo <= value < hi
rng_integers(g, lo, hi) == lo + (RngNext(g) * (hi - lo)) \div RngModulus
\* rng.choice(list)
rng_choice(g, list) == list[1 + (RngNext(g) * Len(list)) \div RngModulus]
rng_uniform_closed(g, lo, hi) == lo + (RngNext(g) * (hi - lo + 2)) \div RngModulus
\* rng.uniform(lo, hi), in whole seconds: lo <= value < hi
rng_uniform(g, lo, hi) == lo + (RngNext(g) * (hi - lo)) \div RngModulus

\* rng.poisson(mean) for mean = incidents_per_min / 60 = 1.0: the cumulative
\* distribution in percent (P(0)=.37, P(<=1)=.74, P(<=2)=.92), cut at 3
IncidentsPerMin == 60
PoissonCdf == <<37, 74, 92>>
rng_poisson(g) ==
    Cardinality({k \in DOMAIN PoissonCdf : rng_random(g) >= PoissonCdf[k]})

(***************************************************************************)
(* IncidentTracker                                                         *)
(***************************************************************************)
RECURSIVE Digits(_)
Digits(n) == IF n < 10 THEN <<n>> ELSE Append(Digits(n \div 10), n % 10)

RECURSIVE ZeroPad(_, _)
ZeroPad(ds, width) == IF Len(ds) >= width THEN ds ELSE ZeroPad(<<0>> \o ds, width)

\* f"A{counter:04d}"
FormatIdentifier(counter) == <<"A">> \o ZeroPad(Digits(counter), 4)

IncidentTracker == [active |-> <<>>, counter |-> 0]

new_identifier_stale(counter) ==
    [counter |-> counter + 1, identifier |-> FormatIdentifier(counter)]

\* IncidentTracker.new_identifier: the counter after the call and the identifier
new_identifier(counter) ==
    [counter |-> counter + 1, identifier |-> FormatIdentifier(counter + 1)]

\* IncidentTracker.add: active[incident.identifier] = incident (a dict keeps the
\* position of a key that is already present)
tracker_add(active, hp, ref) ==
    IF \E i \in DOMAIN active : hp[active[i]].identifier = hp[ref].identifier
    THEN [i \in DOMAIN active |->
            IF hp[active[i]].identifier = hp[ref].identifier THEN ref ELSE active[i]]
    ELSE Append(active, ref)

purge_first_only(active, hp) ==
    IF \E i \in DOMAIN active : hp[active[i]].status = "resolved"
    THEN LET first == CHOOSE i \in DOMAIN active :
                        /\ hp[active[i]].status = "resolved"
                        /\ \A j \in 1 .. (i - 1) : hp[active[j]].status # "resolved"
         IN SubSeq(active, 1, first - 1) \o SubSeq(active, first + 1, Len(active))
    ELSE active

\* IncidentTracker.purge
purge(active, hp) == SelectSeq(active, LAMBDA r : hp[r].status # "resolved")

(***************************************************************************)
(* IncidentsFeed.  An engine value e is [rng, heap, active, counter,       *)
(* emitted]; step threads it through the arrivals and the sweep.           *)
(***************************************************************************)
make_incident(e, now) ==
    LET id == new_identifier(e.counter)
        g1 == RngNext(e.rng)
        g2 == RngNext(g1)
        g3 == RngNext(g2)
        g4 == RngNext(g3)
        g5 == RngNext(g4)
        g6 == RngNext(g5)
        category == rng_choice(g1, INCIDENT_TYPES)
        incident ==
            [identifier |-> id.identifier,
             timestamp |-> now,
             category |-> category,
             severity |-> IncidentSeverity[1 + rng_integers(e.rng, 0, Len(IncidentSeverity))],
             status |-> "new",
             region |-> rng_choice(g2, REGIONS),
             acknowledged |-> FALSE,
             description |-> <<Title(category), "anomaly detected">>,
             last_update |-> now,
             autoresolve_after |-> rng_uniform(g3, AutoresolveLow, AutoresolveHigh),
             location |-> <<rng_integers(g4, 0, GridWidth), rng_integers(g5, 0, GridHeight)>>]
        hp == Append(e.heap, incident)
        ref == Len(hp)
    IN [rng |-> g6,
        heap |-> hp,
        active |-> tracker_add(e.active, hp, ref),
        counter |-> id.counter,
        emitted |-> Append(e.emitted, ref)]

RECURSIVE Arrivals(_, _, _)
Arrivals(e, events, now) ==
    IF events = 0 THEN e ELSE Arrivals(make_incident(e, now), events - 1, now)

SweepOne_emits_every_roll(e, ref, now) ==
    LET inc == e.heap[ref]
    IN IF inc.status = "resolved" THEN e
       ELSE IF can_autoresolve(inc, now)
       THEN [e EXCEPT !.heap[ref].status = "resolved",
                      !.heap[ref].last_update = now,
                      !.emitted = Append(@, ref)]
       ELSE LET progress_roll == rng_random(e.rng)
                drawn == [e EXCEPT !.rng = RngNext(e.rng),
                                   !.emitted = Append(@, ref)]
            IN IF \/ inc.status \in {"new", "acknowledged"} /\ progress_roll < 30
                  \/ inc.status = "in_progress" /\ progress_roll < 15
               THEN [drawn EXCEPT !.heap[ref] = Incident_advance_status(inc, now)]
               ELSE drawn

SweepOne_rolls_first(e, ref, now) ==
    LET inc == e.heap[ref]
        progress_roll == rng_random(e.rng)
        drawn == [e EXCEPT !.rng = RngNext(e.rng)]
    IN IF inc.status = "resolved" THEN e
       ELSE IF can_autoresolve(inc, now)
       THEN [drawn EXCEPT !.heap[ref].status = "resolved",
                          !.heap[ref].last_update = now,
                          !.emitted = Append(@, ref)]
       ELSE IF \/ inc.status \in {"new", "acknowledged"} /\ progress_roll < 30
               \/ inc.status = "in_progress" /\ progress_roll < 15
       THEN [drawn EXCEPT !.heap[ref] = Incident_advance_status(inc, now),
                          !.emitted = Append(@, ref)]
       ELSE drawn

\* one iteration of the loop over list(tracker.iter_active())
SweepOne(e, ref, now) ==
    LET inc == e.heap[ref]
    IN IF inc.status = "resolved" THEN e
       ELSE IF can_autoresolve(inc, now)
       THEN [e EXCEPT !.heap[ref].status = "resolved",
                      !.heap[ref].last_update = now,
                      !.emitted = Append(@, ref)]
       ELSE LET progress_roll == rng_random(e.rng)
                drawn == [e EXCEPT !.rng = RngNext(e.rng)]
            IN IF inc.status \in {"new", "acknowledged"} /\ progress_roll < 30
               THEN [drawn EXCEPT !.heap[ref] = Incident_advance_status(inc, now),
                                  !.emitted = Append(@, ref)]
               ELSE IF inc.status = "in_progress" /\ progress_roll < 15
               THEN [drawn EXCEPT !.heap[ref] = Incident_advance_status(inc, now),
                                  !.emitted = Append(@, ref)]
               ELSE drawn

RECURSIVE Sweep_twice(_, _, _)
Sweep_twice(e, refs, now) ==
    IF refs = <<>> THEN e
    ELSE Sweep_twice(SweepOne(SweepOne(e, Head(refs), now), Head(refs), now),
                     Tail(refs), now)

RECURSIVE Sweep(_, _, _)
Sweep(e, refs, now) ==
    IF refs = <<>> THEN e ELSE Sweep(SweepOne(e, Head(refs), now), Tail(refs), now)

step_sweep_first(e, now) ==
    LET start == [e EXCEPT !.emitted = <<>>]
        events == rng_poisson(start.rng)
        swept == Sweep([start EXCEPT !.rng = RngNext(@)], start.active, now)
        arrived == Arrivals(swept, events, now)
    IN [arrived EXCEPT !.active = purge(arrived.active, arrived.heap)]

\* IncidentsFeed.step at time now
step(e, now) ==
    LET start == [e EXCEPT !.emitted = <<>>]
        events == rng_poisson(start.rng)
        arrived == Arrivals([start EXCEPT !.rng = RngNext(@)], events, now)
        swept == Sweep(arrived, arrived.active, now)
    IN [swept EXCEPT !.active = purge(swept.active, swept.heap)]

Engine == [rng |-> state.rng, heap |-> heap, active |-> tracker.active,
           counter |-> tracker.counter, emitted |-> emitted]

FeedState_reset_forgets(st, seed) ==
    [seed |-> st.seed,
     rng |-> default_rng(IF seed = -1 THEN st.seed ELSE seed)]

\* FeedState.reset(seed); seed = -1 stands for None
FeedState_reset(st, seed) ==
    [seed |-> IF seed = -1 THEN st.seed ELSE seed,
     rng |-> default_rng(IF seed = -1 THEN st.seed ELSE seed)]

(***************************************************************************)
(* MetricsFeed and LogsFeed                                                *)
(***************************************************************************)
\* the standard normal quantile of u percent, to the nearest whole deviation
NormalQuantile(u) ==
    CASE u < 7 -> -2
      [] u >= 7 /\ u < 31 -> -1
      [] u >= 31 /\ u < 69 -> 0
      [] u >= 69 /\ u < 93 -> 1
      [] OTHER -> 2

\* rng.normal(loc, scale)
rng_normal(g, loc, scale) == loc + scale * NormalQuantile(rng_random(g))

\* -ln(1 - u) in halves, rounded up, for u in percent: h halves are
\* exceeded from u = 1 - exp(-h / 2) on
ExponentialHalves(u) ==
    CASE u = 0 -> 0
      [] u > 0 /\ u < 40 -> 1
      [] u >= 40 /\ u < 64 -> 2
      [] u >= 64 /\ u < 78 -> 3
      [] u >= 78 /\ u < 87 -> 4
      [] u >= 87 /\ u < 92 -> 5
      [] u >= 92 /\ u < 96 -> 6
      [] OTHER -> 7

\* rng.exponential(scale), rounded up to an integer, so that a value
\* exceeds an integer exactly when the draw does
rng_exponential(g, scale) == (scale * ExponentialHalves(rng_random(g)) + 1) \div 2

\* np.clip
clip(x, lo, hi) == IF x < lo THEN lo ELSE IF x > hi THEN hi ELSE x

MetricsBaseline == [cpu |-> 55, mem |-> 48]

\* the draws of MetricsFeed.sample: the generator after them and the drift,
\* with the spike added when the exponential draw exceeds 5
MetricsFeed_drift(g) ==
    LET g1 == RngNext(g)
        g2 == RngNext(g1)
        g3 == RngNext(g2)
        g4 == RngNext(g3)
        g5 == RngNext(g4)
        spike == rng_exponential(g2, 2)
    IN [rng |-> IF spike > 5 THEN g5 ELSE g3,
        drift |-> IF spike > 5
                  THEN <<rng_normal(g, 0, 2) + rng_normal(g3, 10, 5),
                         rng_normal(g1, 0, 2) + rng_normal(g4, 10, 5)>>
                  ELSE <<rng_normal(g, 0, 2), rng_normal(g1, 0, 2)>>]

MetricsFeed_sample_unclipped(g, m) ==
    LET d == MetricsFeed_drift(g)
    IN [rng |-> d.rng,
        metrics |-> [cpu |-> m.cpu + d.drift[1], mem |-> m.mem + d.drift[2]]]

\* MetricsFeed.sample: the generator and the levels after the call
MetricsFeed_sample(g, m) ==
    LET d == MetricsFeed_drift(g)
    IN [rng |-> d.rng,
        metrics |-> [cpu |-> clip(m.cpu + d.drift[1], 1, 98),
                     mem |-> clip(m.mem + d.drift[2], 5, 95)]]

LOG_MESSAGES ==
    <<"Scaling up worker pool", "Replica lag detected", "Background job completed",
      "Checkpoint successful", "Connection timeout", "Retrying failed task",
      "Service dependency degraded", "Configuration reloaded",
      "Leader election triggered">>

\* rng.choice(["INFO", "WARN", "ERROR"], p=[0.7, 0.2, 0.1])
rng_choice_level(g) ==
    IF rng_random(g) < 70 THEN "INFO"
    ELSE IF rng_random(g) < 90 THEN "WARN" ELSE "ERROR"

LogsFeed_sample_any_level(g, now) ==
    LET g1 == RngNext(g)
        g2 == RngNext(g1)
        g3 == RngNext(g2)
        g4 == RngNext(g3)
        flip == rng_random(g2) < 50
    IN [rng |-> IF flip THEN g4 ELSE g3,
        record |-> [timestamp |-> now,
                    level |-> rng_choice_level(g),
                    message |-> rng_choice(g1, LOG_MESSAGES),
                    incident_id |-> IF flip THEN <<"I", rng_integers(g3, 100, 999)>>
                                    ELSE <<>>]]

\* LogsFeed.sample: the generator after the call and the record; incident_id
\* <<>> stands for None
LogsFeed_sample(g, now) ==
    LET g1 == RngNext(g)
        g2 == RngNext(g1)
        g3 == RngNext(g2)
        g4 == RngNext(g3)
        level == rng_choice_level(g)
        message == rng_choice(g1, LOG_MESSAGES)
        flip == level # "INFO" /\ rng_random(g2) < 50
    IN [rng |-> IF level = "INFO" THEN g2 ELSE IF flip THEN g4 ELSE g3,
        record |-> [timestamp |-> now,
                    level |-> level,
                    message |-> message,
                    incident_id |-> IF flip THEN <<"I", rng_integers(g3, 100, 999)>>
                                    ELSE <<>>]]

(***************************************************************************)
(* asyncio: tasks and the loop's queue of ready callbacks.  A scheduling   *)
(* value c is [running, taskOf, tasks, ready, timers, launch].             *)
(***************************************************************************)
MaxTasks == 6
TaskIds == 1 .. MaxTasks
Feeds == <<"metrics", "logs", "incidents">>
FeedSet == {Feeds[i] : i \in DOMAIN Feeds}

NoTask == [feed |-> "none", st |-> "free", must_cancel |-> FALSE, wake |-> 0]
TaskHandle(id) == [kind |-> "task", id |-> id]
StartHandle == [kind |-> "start", id |-> 0]
LaunchHandle == [kind |-> "launch", id |-> 0]

\* Task.done()
Task_done(t) == t.st \in {"finished", "cancelled"}

\* a task that exists and is not done
Task_live(t) == t.st \in {"pending", "sleeping", "woken", "running"}

FreeIds(tasks_) == {i \in TaskIds : tasks_[i].st = "free"}

Task_cancel_rewake(c, id) ==
    IF ~Task_live(c.tasks[id]) THEN c
    ELSE [c EXCEPT !.tasks[id].st = "woken",
                   !.tasks[id].must_cancel = TRUE,
                   !.tasks[id].wake = 0,
                   !.timers = SelectSeq(@, LAMBDA i : i # id),
                   !.ready = Append(@, TaskHandle(id))]

\* Task.cancel(): a task waiting in sleep() has its future cancelled and its
\* wakeup scheduled; any other live task is marked and gets the CancelledError
\* at its next step
Task_cancel(c, id) ==
    IF ~Task_live(c.tasks[id]) THEN c
    ELSE IF c.tasks[id].st = "sleeping"
    THEN [c EXCEPT !.tasks[id].st = "woken",
                   !.tasks[id].must_cancel = TRUE,
                   !.tasks[id].wake = 0,
                   !.timers = SelectSeq(@, LAMBDA i : i # id),
                   !.ready = Append(@, TaskHandle(id))]
    ELSE [c EXCEPT !.tasks[id].must_cancel = TRUE]

BaseFeed_start_unguarded(c, f) ==
    LET id == CHOOSE i \in FreeIds(c.tasks) : \A j \in FreeIds(c.tasks) : i <= j
    IN [c EXCEPT !.running[f] = TRUE,
                 !.taskOf[f] = id,
                 !.tasks[id] = [feed |-> f, st |-> "pending",
                                must_cancel |-> FALSE, wake |-> 0],
                 !.ready = Append(@, TaskHandle(id))]

\* BaseFeed.start
BaseFeed_start(c, f) ==
    IF c.taskOf[f] # 0 /\ ~Task_done(c.tasks[c.taskOf[f]])
    THEN c
    ELSE LET released == IF c.taskOf[f] # 0
                         THEN [c EXCEPT !.tasks[c.taskOf[f]] = NoTask]
                         ELSE c
             id == CHOOSE i \in FreeIds(released.tasks) :
                       \A j \in FreeIds(released.tasks) : i <= j
         IN [released EXCEPT !.running[f] = TRUE,
                             !.taskOf[f] = id,
                             !.tasks[id] = [feed |-> f, st |-> "pending",
                                            must_cancel |-> FALSE, wake |-> 0],
                             !.ready = Append(@, TaskHandle(id))]

\* BaseFeed.stop
BaseFeed_stop(c, f) ==
    LET halted == [c EXCEPT !.running[f] = FALSE]
    IN IF c.taskOf[f] # 0 THEN Task_cancel(halted, c.taskOf[f]) ELSE halted

\* FeedsController.start: for feed in self._feeds: await feed.start(bus)
FeedsController_start(c) ==
    BaseFeed_start(BaseFeed_start(BaseFeed_start(c, Feeds[1]), Feeds[2]), Feeds[3])

\* FeedsController.stop
FeedsController_stop(c) ==
    BaseFeed_stop(BaseFeed_stop(BaseFeed_stop(c, Feeds[1]), Feeds[2]), Feeds[3])

BaseFeed_wait_uncaught(t) ==
    IF t.st = "free" THEN "ok"
    ELSE IF t.st = "cancelled" THEN "raised"
    ELSE IF t.st = "finished" THEN "ok" ELSE "blocked"

\* BaseFeed.wait on the feed's task t: "blocked" while the task is not done,
\* "ok" once it is (a CancelledError of the task is caught), "raised" when an
\* exception leaves wait()
BaseFeed_wait(t) ==
    IF t.st = "free" THEN "ok"
    ELSE IF Task_done(t) THEN "ok" ELSE "blocked"

\* FeedsController.wait from the i-th feed on: where _launch stands afterwards
RECURSIVE FeedsController_wait(_, _)
FeedsController_wait(c, i) ==
    IF i > Len(Feeds) THEN [pc |-> "returned", feed |-> 0]
    ELSE LET t == IF c.taskOf[Feeds[i]] = 0 THEN NoTask ELSE c.tasks[c.taskOf[Feeds[i]]]
             r == BaseFeed_wait(t)
         IN IF r = "blocked" THEN [pc |-> "wait", feed |-> i]
            ELSE IF r = "raised" THEN [pc |-> "raised", feed |-> i]
            ELSE FeedsController_wait(c, i + 1)

\* a task ends: its awaiter, if any, is scheduled
Task_finish(c, id, how) ==
    LET awaited == c.launch.pc = "wait" /\ c.taskOf[Feeds[c.launch.feed]] = id
    IN [c EXCEPT !.tasks[id].st = how,
                 !.tasks[id].must_cancel = FALSE,
                 !.tasks[id].wake = 0,
                 !.launch = IF awaited
                            THEN [pc |-> "resume", feed |-> c.launch.feed, how |-> how]
                            ELSE @,
                 !.ready = IF awaited THEN Append(@, LaunchHandle) ELSE @]

\* FeedsController.reset(seed) on w = [c, state, metrics, tracker]
FeedsController_reset_keeps_running(w, seed) ==
    [c |-> w.c,
     state |-> FeedState_reset(w.state, seed),
     metrics |-> MetricsBaseline,
     tracker |-> IncidentTracker]

FeedsController_reset(w, seed) ==
    [c |-> FeedsController_stop(w.c),
     state |-> FeedState_reset(w.state, seed),
     metrics |-> MetricsBaseline,
     tracker |-> IncidentTracker]

(***************************************************************************)
(* The engine driven directly, as the tests drive it.                      *)
(***************************************************************************)
Seeds == 0 .. (RngModulus - 1)

FeedState(seed) == [seed |-> seed, rng |-> default_rng(seed)]

EngineInit ==
    /\ state \in {FeedState(s) : s \in Seeds}
    /\ clock = 0
    /\ heap = <<>>
    /\ tracker = IncidentTracker
    /\ emitted = <<>>
    /\ baseline = 0
    /\ twin = [rng |-> state.rng, heap |-> <<>>, active |-> <<>>,
               counter |-> 0, emitted |-> <<>>]
    /\ trace = <<<<>>, <<>>>>
    /\ metrics = MetricsBaseline
    /\ running = [f \in FeedSet |-> FALSE]
    /\ taskOf = [f \in FeedSet |-> 0]
    /\ tasks = [i \in TaskIds |-> NoTask]
    /\ ready = <<>>
    /\ timers = <<>>
    /\ launch = [pc |-> "await_quit", feed |-> 0, how |-> "none"]
    /\ cur = 0
    /\ pending_pub = <<>>
    /\ delivered = <<>>
    /\ paused = FALSE
    /\ lastCall = "none"
    /\ ops = 0

\* feed.step(), as long as the heap stays within MaxObjects incidents
EngineStep ==
    LET e == step(Engine, clock)
    IN /\ Len(e.heap) <= MaxObjects
       /\ state' = [state EXCEPT !.rng = e.rng]
       /\ heap' = e.heap
       /\ tracker' = [active |-> e.active, counter |-> e.counter]
       /\ emitted' = e.emitted
       /\ UNCHANGED <<clock, baseline>>

\* time passes
Advance ==
    /\ clock < MaxClock
    /\ clock' = clock + 1
    /\ UNCHANGED <<state, heap, tracker, emitted, baseline>>

\* IncidentsFeed.reset()
IncidentsFeed_reset ==
    /\ tracker' = IncidentTracker
    /\ baseline' = Len(heap)
    /\ UNCHANGED <<state, clock, heap, emitted>>

EngineNext ==
    \/ EngineStep /\ UNCHANGED <<twinVars, schedVars>>
    \/ Advance /\ UNCHANGED <<twinVars, schedVars>>
    \/ IncidentsFeed_reset /\ UNCHANGED <<twinVars, schedVars>>

SpecEngine == EngineInit /\ [][EngineNext]_vars

(***************************************************************************)
(* Two feeds with the same seed and configuration, each stepped at times   *)
(* of its own.                                                             *)
(***************************************************************************)
\* identifier, severity, category, region and location of the emitted incidents
Emission(e) ==
    [i \in DOMAIN e.emitted |->
        [identifier |-> e.heap[e.emitted[i]].identifier,
         severity |-> e.heap[e.emitted[i]].severity,
         category |-> e.heap[e.emitted[i]].category,
         region |-> e.heap[e.emitted[i]].region,
         location |-> e.heap[e.emitted[i]].location]]

TwinStepA ==
    /\ Len(trace[1]) < MaxSteps
    /\ EngineStep
    /\ trace' = [trace EXCEPT ![1] = Append(@, Emission(step(Engine, clock)))]
    /\ UNCHANGED <<twin, schedVars>>

TwinStepB ==
    LET e == step(twin, clock)
    IN /\ Len(trace[2]) < MaxSteps
       /\ Len(e.heap) <= MaxObjects
       /\ twin' = e
       /\ trace' = [trace EXCEPT ![2] = Append(@, Emission(e))]
       /\ UNCHANGED <<engineVars, schedVars>>

TwinNext ==
    \/ TwinStepA
    \/ TwinStepB
    \/ Advance /\ UNCHANGED <<twinVars, schedVars>>

SpecTwin == EngineInit /\ [][TwinNext]_vars

(***************************************************************************)
(* The application: the event loop runs the ready callbacks in order; the  *)
(* window and other clients call the controller between callbacks, and a   *)
(* subscriber may call it during a publication.  Callbacks take no time:  *)
(* the clock moves only when no callback is ready and no timer is due.     *)
(* The three intervals are equal, so the timers expire in the order in     *)
(* which the sleeps were made.                                             *)
(***************************************************************************)
MaxOps == 2
MaxTicks == 1
DefaultSeed == 1337
ResetSeeds == {-1, 3}
MetricsHz == 1
LogsPerSec == 1

\* the interval of each feed's _run loop, in seconds
Interval(f) ==
    CASE f = "metrics" -> 1 \div MetricsHz
      [] f = "logs" -> 1 \div LogsPerSec
      [] f = "incidents" -> 1

C == [running |-> running, taskOf |-> taskOf, tasks |-> tasks, ready |-> ready,
      timers |-> timers, launch |-> launch]

SetC(c) ==
    /\ running' = c.running
    /\ taskOf' = c.taskOf
    /\ tasks' = c.tasks
    /\ ready' = c.ready
    /\ timers' = c.timers
    /\ launch' = c.launch

Popped == [C EXCEPT !.ready = Tail(@)]

World == [c |-> C, state |-> state, metrics |-> metrics, tracker |-> tracker]

SetWorld(w) ==
    /\ SetC(w.c)
    /\ state' = w.state
    /\ metrics' = w.metrics
    /\ tracker' = w.tracker

\* _launch has built the controller with the default seed and has scheduled
\* window.start_simulation(); a controller used on its own has nothing scheduled
Init ==
    /\ state = FeedState(DefaultSeed)
    /\ clock = 0
    /\ heap = <<>>
    /\ tracker = IncidentTracker
    /\ emitted = <<>>
    /\ baseline = 0
    /\ twin = [rng |-> state.rng, heap |-> <<>>, active |-> <<>>,
               counter |-> 0, emitted |-> <<>>]
    /\ trace = <<<<>>, <<>>>>
    /\ metrics = MetricsBaseline
    /\ running = [f \in FeedSet |-> FALSE]
    /\ taskOf = [f \in FeedSet |-> 0]
    /\ tasks = [i \in TaskIds |-> NoTask]
    /\ ready \in {<<StartHandle>>, <<>>}
    /\ timers = <<>>
    /\ launch = [pc |-> "await_quit", feed |-> 0, how |-> "none"]
    /\ cur = 0
    /\ pending_pub = <<>>
    /\ delivered = <<>>
    /\ paused = FALSE
    /\ lastCall = "none"
    /\ ops = 0

HeadIsTask == cur = 0 /\ ready # <<>> /\ Head(ready).kind = "task"

\* a step of a task that was cancelled, or whose loop condition is false
Task_step_ends ==
    /\ HeadIsTask
    /\ LET id == Head(ready).id
       IN /\ tasks[id].must_cancel \/ ~running[tasks[id].feed]
          /\ SetC(Task_finish(Popped, id,
                              IF tasks[id].must_cancel THEN "cancelled" ELSE "finished"))
    /\ UNCHANGED <<engineVars, twinVars, metrics, cur, pending_pub, delivered,
                   paused, lastCall, ops>>

\* the task of feed f is at the head of the queue and goes round its loop
LoopTurn(f) ==
    /\ HeadIsTask
    /\ tasks[Head(ready).id].feed = f
    /\ ~tasks[Head(ready).id].must_cancel
    /\ running[f]
    /\ cur' = Head(ready).id
    /\ tasks' = [tasks EXCEPT ![Head(ready).id].st = "running"]
    /\ ready' = Tail(ready)
    /\ delivered' = <<>>
    /\ UNCHANGED <<running, taskOf, timers, launch, paused, lastCall, ops, twinVars>>

\* MetricsFeed._run: sample = self.sample()
MetricsFeed_run ==
    /\ LoopTurn("metrics")
    /\ LET s == MetricsFeed_sample(state.rng, metrics)
       IN /\ state' = [state EXCEPT !.rng = s.rng]
          /\ metrics' = s.metrics
          /\ pending_pub' = <<[topic |-> "metrics",
                               payload |-> [timestamp |-> clock,
                                            cpu_percent |-> s.metrics.cpu,
                                            memory_percent |-> s.metrics.mem]]>>
    /\ UNCHANGED <<clock, heap, tracker, emitted, baseline>>

\* LogsFeed._run: record = self.sample()
LogsFeed_run ==
    /\ LoopTurn("logs")
    /\ LET s == LogsFeed_sample(state.rng, clock)
       IN /\ state' = [state EXCEPT !.rng = s.rng]
          /\ pending_pub' = <<[topic |-> "log", payload |-> s.record]>>
    /\ UNCHANGED <<clock, heap, tracker, emitted, baseline, metrics>>

\* IncidentsFeed._run: self.step()
IncidentsFeed_run ==
    /\ LoopTurn("incidents")
    /\ EngineStep
    /\ pending_pub' = [i \in DOMAIN emitted' |->
                          [topic |-> "incident", payload |-> emitted'[i]]]
    /\ UNCHANGED metrics

run_publish_next_while_running(pending, isRunning) ==
    IF isRunning THEN Tail(pending) ELSE <<>>

\* the for loop of _run goes on with the rest of the list
run_publish_next(pending, isRunning) == Tail(pending)

\* bus.publish(self.topic, payload) in _run; the subscriber called does
\* nothing to the controller (cb = "none"), or calls stop() or reset()
Publish(cb) ==
    /\ cur # 0
    /\ pending_pub # <<>>
    /\ delivered' = Append(delivered, Head(pending_pub))
    /\ \/ /\ cb = "none"
          /\ UNCHANGED <<running, taskOf, tasks, ready, timers, launch, state,
                         metrics, tracker, baseline, lastCall, ops>>
       \/ /\ cb = "stop"
          /\ ops < MaxOps
          /\ SetC(FeedsController_stop(C))
          /\ lastCall' = "stop"
          /\ ops' = ops + 1
          /\ UNCHANGED <<state, metrics, tracker, baseline>>
       \/ /\ cb = "reset"
          /\ ops < MaxOps
          /\ SetWorld(FeedsController_reset(World, -1))
          /\ baseline' = Len(heap)
          /\ lastCall' = "reset"
          /\ ops' = ops + 1
    /\ pending_pub' = run_publish_next(pending_pub, running'[tasks[cur].feed])
    /\ UNCHANGED <<clock, heap, emitted, twinVars, cur, paused>>

\* await asyncio.sleep(interval): a task marked for cancellation has the
\* sleep cancelled at once and its wakeup scheduled
Sleep ==
    /\ cur # 0
    /\ pending_pub = <<>>
    /\ IF tasks[cur].must_cancel
       THEN /\ tasks' = [tasks EXCEPT ![cur].st = "woken"]
            /\ ready' = Append(ready, TaskHandle(cur))
            /\ timers' = timers
       ELSE /\ tasks' = [tasks EXCEPT ![cur].st = "sleeping",
                                      ![cur].wake = clock + Interval(tasks[cur].feed)]
            /\ ready' = ready
            /\ timers' = Append(timers, cur)
    /\ cur' = 0
    /\ UNCHANGED <<engineVars, twinVars, metrics, running, taskOf, launch,
                   pending_pub, delivered, paused, lastCall, ops>>

TimerDue == timers # <<>> /\ clock >= tasks[Head(timers)].wake

\* the timer of the earliest sleep expires: the task's wakeup is scheduled
TimerFire ==
    /\ cur = 0
    /\ TimerDue
    /\ tasks' = [tasks EXCEPT ![Head(timers)].st = "woken", ![Head(timers)].wake = 0]
    /\ ready' = Append(ready, TaskHandle(Head(timers)))
    /\ timers' = Tail(timers)
    /\ UNCHANGED <<engineVars, twinVars, metrics, running, taskOf, launch, cur,
                   pending_pub, delivered, paused, lastCall, ops>>

\* the loop is idle until the next timer: time passes
Tick ==
    /\ cur = 0
    /\ ready = <<>>
    /\ ~TimerDue
    /\ clock < MaxTicks
    /\ Advance
    /\ UNCHANGED <<twinVars, metrics, running, taskOf, tasks, ready, timers, launch,
                   cur, pending_pub, delivered, paused, lastCall, ops>>

\* the task made by MainWindow._schedule(self.feeds.start(self.bus)) or by
\* loop.create_task(window.start_simulation()) runs
RunStart ==
    /\ cur = 0
    /\ ready # <<>>
    /\ Head(ready).kind = "start"
    /\ Cardinality(FreeIds(tasks)) >= Len(Feeds)
    /\ SetC(FeedsController_start(Popped))
    /\ lastCall' = "start"
    /\ UNCHANGED <<engineVars, twinVars, metrics, cur, pending_pub, delivered,
                   paused, ops>>

\* _launch resumes: await feeds.wait()
RunLaunch ==
    /\ cur = 0
    /\ ready # <<>>
    /\ Head(ready).kind = "launch"
    /\ LET caught == \/ launch.pc = "quit"
                     \/ BaseFeed_wait([NoTask EXCEPT !.st = launch.how]) = "ok"
           from == IF launch.pc = "quit" THEN 1 ELSE launch.feed + 1
           at == IF caught THEN FeedsController_wait(Popped, from)
                 ELSE [pc |-> "raised", feed |-> launch.feed]
       IN /\ launch' = [pc |-> at.pc, feed |-> at.feed, how |-> "none"]
          /\ ready' = Tail(ready)
    /\ UNCHANGED <<engineVars, twinVars, metrics, running, taskOf, tasks, timers, cur,
                   pending_pub, delivered, paused, lastCall, ops>>

\* a client may call the controller: between callbacks, before the quit
ClientTurn ==
    /\ cur = 0
    /\ launch.pc = "await_quit"
    /\ ops < MaxOps
    /\ ops' = ops + 1

\* await feeds.start(bus) in a coroutine of the client
ClientStart ==
    /\ ClientTurn
    /\ Cardinality(FreeIds(tasks)) >= Len(Feeds)
    /\ SetC(FeedsController_start(C))
    /\ lastCall' = "start"
    /\ UNCHANGED <<engineVars, twinVars, metrics, cur, pending_pub, delivered, paused>>

\* feeds.stop()
ClientStop ==
    /\ ClientTurn
    /\ SetC(FeedsController_stop(C))
    /\ lastCall' = "stop"
    /\ UNCHANGED <<engineVars, twinVars, metrics, cur, pending_pub, delivered, paused>>

\* feeds.reset(seed)
ClientReset(seed) ==
    /\ ClientTurn
    /\ SetWorld(FeedsController_reset(World, seed))
    /\ baseline' = Len(heap)
    /\ lastCall' = "reset"
    /\ UNCHANGED <<clock, heap, emitted, twinVars, cur, pending_pub, delivered, paused>>

\* MainWindow.toggle_pause
MainWindow_toggle_pause ==
    /\ ClientTurn
    /\ IF paused
       THEN /\ SetC([C EXCEPT !.ready = Append(@, StartHandle)])
            /\ lastCall' = lastCall
       ELSE /\ SetC(FeedsController_stop(C))
            /\ lastCall' = "stop"
    /\ paused' = ~paused
    /\ UNCHANGED <<engineVars, twinVars, metrics, cur, pending_pub, delivered>>

\* MainWindow.reset_simulation
MainWindow_reset_simulation ==
    /\ ClientTurn
    /\ LET w == FeedsController_reset([World EXCEPT !.c = FeedsController_stop(C)], -1)
       IN SetWorld(IF paused THEN w
                   ELSE [w EXCEPT !.c.ready = Append(@, StartHandle)])
    /\ baseline' = Len(heap)
    /\ lastCall' = "reset"
    /\ UNCHANGED <<clock, heap, emitted, twinVars, cur, pending_pub, delivered, paused>>

\* MainWindow.closeEvent, then aboutToQuit sets quit_future and _launch is
\* scheduled
MainWindow_closeEvent ==
    /\ cur = 0
    /\ launch.pc = "await_quit"
    /\ SetC([FeedsController_stop(C) EXCEPT
                !.launch = [pc |-> "quit", feed |-> 0, how |-> "none"],
                !.ready = Append(@, LaunchHandle)])
    /\ lastCall' = "stop"
    /\ UNCHANGED <<engineVars, twinVars, metrics, cur, pending_pub, delivered,
                   paused, ops>>

Next ==
    \/ Task_step_ends
    \/ MetricsFeed_run
    \/ LogsFeed_run
    \/ IncidentsFeed_run
    \/ \E cb \in {"none", "stop", "reset"} : Publish(cb)
    \/ Sleep
    \/ TimerFire
    \/ Tick
    \/ RunStart
    \/ RunLaunch
    \/ ClientStart
    \/ ClientStop
    \/ \E seed \in ResetSeeds : ClientReset(seed)
    \/ MainWindow_toggle_pause
    \/ MainWindow_reset_simulation
    \/ MainWindow_closeEvent

Spec == Init /\ [][Next]_vars

\* the loop goes on running the callbacks that end a task, publish, suspend a
\* task and resume _launch
FairSpec ==
    /\ Spec
    /\ WF_vars(Task_step_ends)
    /\ WF_vars(\E cb \in {"none", "stop", "reset"} : Publish(cb))
    /\ WF_vars(Sleep)
    /\ WF_vars(RunLaunch)

(***************************************************************************)
(* Properties of the engine.                                               *)
(***************************************************************************)
Rank(status) == CHOOSE i \in DOMAIN IncidentStatus : IncidentStatus[i] = status

ActiveSet == {tracker.active[i] : i \in DOMAIN tracker.active}
EmittedSet == {emitted[i] : i \in DOMAIN emitted}

\* C1: after every completed step() no incident whose status is RESOLVED is
\* left in tracker.active (nor in any other state the engine alone reaches).
C1_PurgeInvariant ==
    \A i \in DOMAIN tracker.active : heap[tracker.active[i]].status # "resolved"

\* a step has resolved an incident, emitted it and purged it, while another
\* incident stays tracked
C1_Witness ==
    /\ \E r \in EmittedSet : heap[r].status = "resolved" /\ r \notin ActiveSet
    /\ ActiveSet # {}

\* C2: no step() makes the status of an incident regress; a step that moves an
\* incident over more than one state does so for an incident whose auto-resolve
\* deadline had elapsed and takes it to RESOLVED; an incident created by the
\* step is NEW or one state further.
C2_StatusMonotonic ==
    [][ /\ \A r \in DOMAIN heap :
              /\ Rank(heap'[r].status) >= Rank(heap[r].status)
              /\ Rank(heap'[r].status) > Rank(heap[r].status) + 1 =>
                    /\ heap'[r].status = "resolved"
                    /\ clock - heap[r].last_update >= heap[r].autoresolve_after
        /\ \A r \in DOMAIN heap' \ DOMAIN heap :
              heap'[r].status \in {"new", "acknowledged"}
      ]_vars

\* an incident went through all four states one by one (it was acknowledged
\* and it is resolved), and another one was resolved without being acknowledged
C2_Witness ==
    /\ \E r \in DOMAIN heap : heap[r].status = "resolved" /\ heap[r].acknowledged
    /\ \E r \in DOMAIN heap : heap[r].status = "resolved" /\ ~heap[r].acknowledged

\* C3: when step() runs while a tracked, non-RESOLVED incident's deadline has
\* elapsed (now - last_update >= autoresolve_after), that step sets it to
\* RESOLVED and returns it in the emitted list.
C3_AutoResolve ==
    [][ EngineStep =>
          \A r \in ActiveSet :
              (/\ heap[r].status # "resolved"
               /\ clock - heap[r].last_update >= heap[r].autoresolve_after)
              => /\ heap'[r].status = "resolved"
                 /\ \E i \in DOMAIN emitted' : emitted'[i] = r
      ]_vars

\* a step has just resolved a NEW incident after its deadline: it is in the
\* emitted list, RESOLVED, never acknowledged, updated now and created earlier
C3_Witness ==
    \E r \in EmittedSet :
        /\ heap[r].status = "resolved"
        /\ ~heap[r].acknowledged
        /\ heap[r].last_update = clock
        /\ clock - heap[r].timestamp >= heap[r].autoresolve_after

\* the number an identifier shows
IdentifierNumber(id) == 1000 * id[2] + 100 * id[3] + 10 * id[4] + id[5]

\* C4 as stated: the Nth incident a feed instance creates has identifier A
\* followed by N on four digits, and no two incidents of the instance share an
\* identifier.
C4_Original ==
    /\ \A k \in DOMAIN heap :
          /\ Len(heap[k].identifier) = 5
          /\ heap[k].identifier[1] = "A"
          /\ IdentifierNumber(heap[k].identifier) = k
    /\ \A j, k \in DOMAIN heap : j # k => heap[j].identifier # heap[k].identifier

\* C4 amended: the Nth incident created since the feed was constructed or last
\* reset has identifier A followed by N on four digits, however many were
\* purged, and no two incidents created since then share an identifier.
C4_IdentifiersSinceReset ==
    /\ \A k \in DOMAIN heap :
          k > baseline =>
              /\ Len(heap[k].identifier) = 5
              /\ heap[k].identifier[1] = "A"
              /\ IdentifierNumber(heap[k].identifier) = k - baseline
    /\ \A j, k \in DOMAIN heap :
          (j > baseline /\ k > baseline /\ j # k) =>
              heap[j].identifier # heap[k].identifier

\* an incident was created after an earlier one of the same run was purged
C4_Witness ==
    \E j, k \in DOMAIN heap :
        /\ baseline < j /\ j < k
        /\ heap[j].status = "resolved" /\ j \notin ActiveSet
        /\ heap[k].timestamp > heap[j].last_update

\* C5: two feeds built with the same seed and configuration that have made the
\* same number of step() calls have emitted the same sequences of identifiers,
\* severities, categories, regions and locations.
C5_Determinism ==
    Len(trace[1]) = Len(trace[2]) => trace[1] = trace[2]

(***************************************************************************)
(* Properties of the feeds' tasks.                                         *)
(***************************************************************************)
LiveTasks(f) == {i \in TaskIds : tasks[i].feed = f /\ Task_live(tasks[i])}

HasLiveTask(f) == taskOf[f] # 0 /\ Task_live(tasks[taskOf[f]])

StartCall == RunStart \/ ClientStart

FeedTick == MetricsFeed_run \/ LogsFeed_run \/ IncidentsFeed_run

\* C6: each feed has at most one task that is not done, and a start() made
\* while the task of a feed is not done leaves the feed's flag, its task and
\* the set of its live tasks as they were.
C6_StartIdempotent ==
    /\ [](\A f \in FeedSet : Cardinality(LiveTasks(f)) <= 1)
    /\ [][StartCall =>
            \A f \in FeedSet :
                HasLiveTask(f) =>
                    /\ running'[f] = running[f]
                    /\ taskOf'[f] = taskOf[f]
                    /\ tasks'[taskOf[f]] = tasks[taskOf[f]]
                    /\ \A i \in TaskIds : tasks'[i].feed = f => tasks[i].feed = f
         ]_vars

\* start() has been called twice before any task ran: the second call was
\* made with the three tasks not done and has added nothing
C6_Witness ==
    /\ ops = 1
    /\ lastCall = "start"
    /\ cur = 0
    /\ \A f \in FeedSet : taskOf[f] # 0 /\ tasks[taskOf[f]].st = "pending"
    /\ ready = <<TaskHandle(1), TaskHandle(2), TaskHandle(3)>>

\* C7: as long as reset() is the last call made on the controller, all feeds
\* are stopped and their tasks done or cancelled, the generator is the one
\* initialised from the seed, the metrics levels are the baseline, the tracker
\* is empty with counter 0, and no feed makes a tick.
C7_Reset ==
    /\ [](lastCall = "reset" =>
            /\ \A f \in FeedSet :
                  /\ ~running[f]
                  /\ HasLiveTask(f) => tasks[taskOf[f]].must_cancel
            /\ state.rng = default_rng(state.seed)
            /\ metrics = MetricsBaseline
            /\ tracker = IncidentTracker)
    /\ [][lastCall = "reset" => ~FeedTick]_vars

\* reset(3) was called after incidents were made, and a cancelled task has ended
C7_Witness ==
    /\ lastCall = "reset"
    /\ state.seed = 3
    /\ heap # <<>>
    /\ baseline = Len(heap)
    /\ \E f \in FeedSet : taskOf[f] # 0 /\ tasks[taskOf[f]].st = "cancelled"

\* C8: whenever start() is the last call made on the controller, every feed
\* has its flag set and a task that is not done and not cancelled.
C8_RestartAfterStop ==
    lastCall = "start" =>
        \A f \in FeedSet :
            /\ running[f]
            /\ HasLiveTask(f)
            /\ ~tasks[taskOf[f]].must_cancel

\* start() was called after stop() and all three tasks have ended: no feed
\* ticks any more
C8_Witness ==
    /\ lastCall = "start"
    /\ \A f \in FeedSet :
          /\ ~running[f]
          /\ taskOf[f] # 0
          /\ tasks[taskOf[f]].st = "cancelled"

\* C9: a task never ends while its iteration executes; an iteration leaves
\* nothing unpublished when it goes to sleep, the incidents feed having
\* published the whole list of its step(); no tick starts while stop() or
\* reset() is the last call; and whenever a subscriber can be called the
\* tracker holds no resolved incident.
C9_NoMidTickCancel ==
    /\ [][\A i \in TaskIds :
            (Task_done(tasks'[i]) /\ ~Task_done(tasks[i])) =>
                /\ tasks[i].st \in {"pending", "woken"}
                /\ cur # i
         ]_vars
    /\ [][(cur # 0 /\ cur' = 0) =>
            /\ pending_pub = <<>>
            /\ tasks[cur].feed = "incidents" =>
                  [i \in DOMAIN delivered |-> delivered[i].payload] = emitted
            /\ tasks[cur].feed # "incidents" => Len(delivered) = 1
         ]_vars
    /\ [][(lastCall \in {"stop", "reset"}) => ~FeedTick]_vars
    /\ [](cur # 0 =>
            \A i \in DOMAIN tracker.active : heap[tracker.active[i]].status # "resolved")

\* stop() was called by a subscriber during the first publication of a tick
\* of the incidents feed, and the tick has published its two events
C9_Witness ==
    /\ cur # 0
    /\ tasks[cur].feed = "incidents"
    /\ tasks[cur].must_cancel
    /\ lastCall = "stop"
    /\ pending_pub = <<>>
    /\ Len(delivered) >= 2

Waiting == launch.pc \in {"quit", "wait", "resume"}

StartPending == \E i \in DOMAIN ready : ready[i].kind = "start"

Stopped == lastCall \in {"stop", "reset"}

AllTasksDone == \A f \in FeedSet : taskOf[f] = 0 \/ Task_done(tasks[taskOf[f]])

\* C10: wait() has returned only if the task of every feed is done; no
\* CancelledError leaves wait(); with no task ever started wait() returns in
\* the step that calls it; and once wait() is called with stop() or reset() the
\* last call made and no start() scheduled, it eventually returns.
C10_Wait ==
    /\ [](launch.pc = "returned" => AllTasksDone)
    /\ [](launch.pc # "raised")
    /\ [][(RunLaunch /\ launch.pc = "quit" /\ \A f \in FeedSet : taskOf[f] = 0) =>
            launch'.pc = "returned"]_vars
    /\ (Waiting /\ Stopped /\ ~StartPending) ~> (launch.pc = "returned")

\* wait() has returned after the three tasks were cancelled while at work
C10_Witness ==
    /\ launch.pc = "returned"
    /\ heap # <<>>
    /\ \A f \in FeedSet : taskOf[f] # 0 /\ tasks[taskOf[f]].st = "cancelled"

(***************************************************************************)
(* Frame of stop().                                                        *)
(***************************************************************************)
\* the steps in which FeedsController.stop() is called and nothing else is
StopCall ==
    \/ ClientStop
    \/ Publish("stop")
    \/ MainWindow_closeEvent
    \/ MainWindow_toggle_pause /\ ~paused

\* no feed is running and no task is left to cancel
AllStopped ==
    \A f \in FeedSet :
        /\ ~running[f]
        /\ HasLiveTask(f) => /\ tasks[taskOf[f]].must_cancel
                             /\ tasks[taskOf[f]].st # "sleeping"

\* C11: a stop() leaves the tracker, the incidents, the metrics levels and the
\* generator as they were, and so does a start(); a stop() of feeds that were
\* never started or are already stopped leaves the flags, the tasks and the
\* loop's queues as they were too.
C11_StopFrame ==
    /\ [][(StopCall \/ StartCall) =>
            UNCHANGED <<tracker, heap, metrics, state, emitted, baseline>>]_vars
    /\ [][(ClientStop /\ AllStopped) =>
            UNCHANGED <<running, taskOf, tasks, ready, timers, launch>>]_vars

\* stop() was the last call, after ticks that made incidents and moved the
\* metrics levels, and the three tasks have ended
C11_Witness ==
    /\ lastCall = "stop"
    /\ tracker.active # <<>>
    /\ tracker.counter > 0
    /\ metrics # MetricsBaseline
    /\ \A f \in FeedSet : taskOf[f] # 0 /\ tasks[taskOf[f]].st = "cancelled"

(***************************************************************************)
(* Two runs of the controller after reset(seed) and start(), with the same *)
(* seed and configuration.  The logs feed has a longer interval than the   *)
(* other two (logs_per_sec = 0.5).  In this specification twin holds the   *)
(* two runs, and clock is the time since the start of each.  Timers whose  *)
(* deadlines fall in the same second expire in an order that depends on    *)
(* the time the callbacks took, except that of two sleeps the earlier one  *)
(* expires first when its interval is not the longer.                      *)
(***************************************************************************)
SlowLogsInterval == 2

RunInterval ==
    [metrics |-> 1 \div MetricsHz, logs |-> SlowLogsInterval, incidents |-> 1]

\* a controller that was built and never started
NothingScheduled ==
    /\ metrics = MetricsBaseline
    /\ running = [f \in FeedSet |-> FALSE]
    /\ taskOf = [f \in FeedSet |-> 0]
    /\ tasks = [i \in TaskIds |-> NoTask]
    /\ ready = <<>>
    /\ timers = <<>>
    /\ launch = [pc |-> "await_quit", feed |-> 0, how |-> "none"]
    /\ cur = 0
    /\ pending_pub = <<>>
    /\ delivered = <<>>
    /\ paused = FALSE
    /\ lastCall = "none"
    /\ ops = 0

\* FeedsController after reset(seed) and start(): the three tasks are ready in
\* the order in which start() created them
RunInit(seed) ==
    [e |-> [rng |-> default_rng(seed), heap |-> <<>>, active |-> <<>>,
            counter |-> 0, emitted |-> <<>>],
     metrics |-> MetricsBaseline,
     ready |-> Feeds,
     timers |-> <<>>,
     due |-> [f \in FeedSet |-> 0],
     out |-> [f \in FeedSet |-> <<>>]]

RunsInit ==
    /\ state \in {FeedState(s) : s \in Seeds}
    /\ twin = <<RunInit(state.seed), RunInit(state.seed)>>
    /\ clock = 0
    /\ heap = <<>>
    /\ tracker = IncidentTracker
    /\ emitted = <<>>
    /\ baseline = 0
    /\ trace = <<<<>>, <<>>>>
    /\ NothingScheduled

\* what a tick of feed f publishes, without the timestamps, and the run after it
RunTick(run, f, now) ==
    CASE f = "metrics" ->
            LET s == MetricsFeed_sample(run.e.rng, run.metrics)
            IN [run EXCEPT !.e.rng = s.rng,
                           !.metrics = s.metrics,
                           !.out[f] = Append(@, <<s.metrics.cpu, s.metrics.mem>>)]
      [] f = "logs" ->
            LET s == LogsFeed_sample(run.e.rng, now)
            IN [run EXCEPT !.e.rng = s.rng,
                           !.out[f] = Append(@, <<s.record.level, s.record.message,
                                                  s.record.incident_id>>)]
      [] f = "incidents" ->
            LET e == step(run.e, now)
            IN [run EXCEPT !.e = e, !.out[f] = @ \o Emission(e)]

\* one iteration of the _run loop of the feed at the head of the queue of run r
RunsTick(r) ==
    /\ twin[r].ready # <<>>
    /\ LET f == Head(twin[r].ready)
           ticked == RunTick(twin[r], f, clock)
       IN /\ Len(ticked.e.heap) <= MaxObjects
          /\ twin' = [twin EXCEPT ![r] = [ticked EXCEPT !.ready = Tail(@),
                                                        !.timers = Append(@, f),
                                                        !.due[f] = clock + RunInterval[f]]]
    /\ UNCHANGED <<engineVars, trace, schedVars>>

RunTimerDue(run) == \E i \in DOMAIN run.timers : run.due[run.timers[i]] <= clock

\* the timer of feed f expires in run r
RunsTimer(r, f) ==
    /\ \E i \in DOMAIN twin[r].timers :
          /\ twin[r].timers[i] = f
          /\ twin[r].due[f] <= clock
          /\ \A j \in 1 .. (i - 1) :
                LET g == twin[r].timers[j]
                IN ~(twin[r].due[g] <= clock /\ RunInterval[g] <= RunInterval[f])
    /\ twin' = [twin EXCEPT ![r].timers = SelectSeq(@, LAMBDA g : g # f),
                            ![r].ready = Append(@, f)]
    /\ UNCHANGED <<engineVars, trace, schedVars>>

RunQuiet(run) == run.ready = <<>> /\ ~RunTimerDue(run)

\* both loops are idle: time passes
RunsAdvance ==
    /\ \A r \in {1, 2} : RunQuiet(twin[r])
    /\ clock < MaxSteps
    /\ clock' = clock + 1
    /\ UNCHANGED <<state, heap, tracker, emitted, baseline, twinVars, schedVars>>

RunsNext ==
    \/ \E r \in {1, 2} : RunsTick(r)
    \/ \E r \in {1, 2} : \E f \in FeedSet : RunsTimer(r, f)
    \/ RunsAdvance

SpecRuns == RunsInit /\ [][RunsNext]_vars

\* C12: two runs started from the same seed that have come to the same time
\* have published, feed by feed, the same sequence of events.
C12_Reproducible ==
    (\A r \in {1, 2} : RunQuiet(twin[r])) => twin[1].out = twin[2].out

\* both runs have made the same ticks up to second 2, the logs timer having
\* expired before the metrics timer in one and after it in the other
C12_Witness ==
    /\ clock = 2
    /\ \A r \in {1, 2} : twin[r].ready = <<>> /\ twin[r].timers # <<>>
    /\ \A r \in {1, 2} : \A f \in FeedSet : twin[r].due[f] > clock
    /\ twin[1].timers[1] = "logs"
    /\ twin[2].timers[1] = "metrics"
    /\ twin[1].out # twin[2].out

(***************************************************************************)
(* FeedState on its own: draws and resets.  In this specification trace    *)
(* holds the draws made since the last reset, and the seed last given to   *)
(* the constructor or to reset() with the way the generator was last made. *)
(***************************************************************************)
MaxDraws == 3

\* seeds, several of which start the generator in the same state
StateSeeds == 0 .. (2 * RngModulus - 1)

StateInit ==
    /\ state \in {FeedState(s) : s \in StateSeeds}
    /\ trace = <<<<>>, <<state.seed, "built">>>>
    /\ clock = 0
    /\ heap = <<>>
    /\ tracker = IncidentTracker
    /\ emitted = <<>>
    /\ baseline = 0
    /\ twin = <<>>
    /\ NothingScheduled

\* self.state.rng.random()
StateDraw ==
    /\ Len(trace[1]) < MaxDraws
    /\ state' = [state EXCEPT !.rng = RngNext(@)]
    /\ trace' = [trace EXCEPT ![1] = Append(@, rng_random(state.rng))]
    /\ UNCHANGED <<clock, heap, tracker, emitted, baseline, twin, schedVars>>

\* state.reset(seed); seed = -1 stands for None
StateReset(seed) ==
    /\ state' = FeedState_reset(state, seed)
    /\ trace' = <<<<>>, IF seed = -1 THEN <<trace[2][1], "replayed">>
                         ELSE <<seed, "given">>>>
    /\ UNCHANGED <<clock, heap, tracker, emitted, baseline, twin, schedVars>>

StateNext ==
    \/ StateDraw
    \/ \E seed \in {-1} \cup StateSeeds : StateReset(seed)

SpecState == StateInit /\ [][StateNext]_vars

\* the first n draws of the generator g
RECURSIVE Draws(_, _)
Draws(g, n) == IF n = 0 THEN <<>> ELSE <<rng_random(g)>> \o Draws(RngNext(g), n - 1)

\* C13: the stored seed is the seed last given, a reset() without seed leaves
\* it as it is and a reset(seed) stores seed, and the draws made since the last
\* reset are the first draws of a FeedState newly built with the stored seed.
C13_FeedStateReset ==
    /\ [](state.seed = trace[2][1])
    /\ [](trace[1] = Draws(FeedState(state.seed).rng, Len(trace[1])))
    /\ [][\A seed \in {-1} \cup StateSeeds :
            StateReset(seed) =>
                /\ state'.seed = IF seed = -1 THEN state.seed ELSE seed
                /\ state' = FeedState(state'.seed)
         ]_vars

\* the seed 20 was given, a reset() without seed was made later and two draws
\* followed
C13_Witness ==
    /\ trace[2] = <<20, "replayed">>
    /\ state.seed = 20
    /\ Len(trace[1]) = 2
    /\ state.rng # default_rng(20)


(***************************************************************************)
(* Events as a subscriber sees them.  step() returns, and _run publishes,  *)
(* the Incident objects themselves: an event is a reference into the heap, *)
(* and what it shows is the object's state when it is looked at.           *)
(***************************************************************************)
\* the positions of `list` that hold the first occurrence of their reference
FirstOccurrences(list) ==
    {i \in DOMAIN list : \A j \in 1 .. (i - 1) : list[j] # list[i]}

\* the creation events of a step that started with `before` objects
CreationEvents(list, before) ==
    {i \in FirstOccurrences(list) : list[i] > before}

\* C14: an event shows the status the incident had when the event was
\* produced; in particular, when step() returns its list for publication,
\* the creation event of every incident made in this step shows NEW, even
\* if the step advanced the incident after creating it.
C14_Snapshot ==
    [][EngineStep =>
         \A i \in CreationEvents(emitted', Len(heap)) :
             heap'[emitted'[i]].status = "new"]_vars

\* a step created an incident and advanced it: its list holds the object
\* twice, and both events show the later status
C14_Witness ==
    \E i, j \in DOMAIN emitted :
        /\ i < j
        /\ emitted[i] = emitted[j]
        /\ heap[emitted[i]].status = "acknowledged"


(***************************************************************************)
(* The incidents panel.  MainWindow._on_incident posts an update to the Qt *)
(* queue for every published incident; the update hands the published      *)
(* object to IncidentsPanel.add_incident, whose table keeps one row per    *)
(* identifier, each row holding the object.  Acknowledge and Resolve act   *)
(* on the object of the selected row.  pending_pub is the queue of posted  *)
(* updates and delivered the rows of the table; Qt runs the posted updates *)
(* before the feed's next tick, one second later.  The user makes at most  *)
(* MaxOps actions.                                                         *)
(***************************************************************************)
\* the application builds its FeedsController with the default seed
PanelInit ==
    /\ state = FeedState(DefaultSeed)
    /\ clock = 0
    /\ heap = <<>>
    /\ tracker = IncidentTracker
    /\ emitted = <<>>
    /\ baseline = 0
    /\ twin = <<>>
    /\ trace = <<>>
    /\ NothingScheduled

\* IncidentTableModel.upsert
upsert(rows, hp, ref) ==
    IF \E idx \in DOMAIN rows : hp[rows[idx]].identifier = hp[ref].identifier
    THEN LET idx == CHOOSE k \in DOMAIN rows :
                      /\ hp[rows[k]].identifier = hp[ref].identifier
                      /\ \A j \in 1 .. (k - 1) :
                            hp[rows[j]].identifier # hp[ref].identifier
         IN [rows EXCEPT ![idx] = ref]
    ELSE Append(rows, ref)

\* one tick of IncidentsFeed._run: step(), then publish of every incident
\* of the list, each calling _on_incident, which posts its update
PanelTick ==
    /\ pending_pub = <<>>
    /\ EngineStep
    /\ pending_pub' = emitted'
    /\ UNCHANGED delivered

\* a posted update runs: incidents_panel.add_incident(incident)
MainWindow_on_incident_update ==
    /\ pending_pub # <<>>
    /\ delivered' = upsert(delivered, heap, Head(pending_pub))
    /\ pending_pub' = Tail(pending_pub)
    /\ UNCHANGED engineVars

\* IncidentsPanel.acknowledge_selected with the row selected
acknowledge_selected(row) ==
    LET ref == delivered[row]
    IN /\ ops < MaxOps
       /\ ops' = ops + 1
       /\ heap' = [heap EXCEPT ![ref].acknowledged = TRUE,
                               ![ref].status = IF @ = "new" THEN "acknowledged"
                                               ELSE @]
       /\ delivered' = upsert(delivered, heap', ref)
       /\ UNCHANGED <<state, clock, tracker, emitted, baseline, pending_pub>>

\* IncidentsPanel.resolve_selected with the row selected
resolve_selected(row) ==
    LET ref == delivered[row]
    IN /\ ops < MaxOps
       /\ ops' = ops + 1
       /\ heap' = [heap EXCEPT ![ref].status = "resolved"]
       /\ delivered' = upsert(delivered, heap', ref)
       /\ UNCHANGED <<state, clock, tracker, emitted, baseline, pending_pub>>

PanelRest == <<twin, trace, metrics, running, taskOf, tasks, ready, timers,
               launch, cur, paused, lastCall>>

PanelNext ==
    \/ PanelTick /\ UNCHANGED <<PanelRest, ops>>
    \/ MainWindow_on_incident_update /\ UNCHANGED <<PanelRest, ops>>
    \/ \E row \in DOMAIN delivered : acknowledge_selected(row) /\ UNCHANGED PanelRest
    \/ \E row \in DOMAIN delivered : resolve_selected(row) /\ UNCHANGED PanelRest
    \/ Advance /\ UNCHANGED <<PanelRest, ops, pending_pub, delivered>>

SpecPanel == PanelInit /\ [][PanelNext]_vars

\* the tracked incidents whose object differs between the two heaps
TrackedChanged(active, hp, hp2) ==
    {i \in DOMAIN active : hp2[active[i]] # hp[active[i]]}

\* the incidents tracked before and not after
Untracked(active, active2) ==
    {active[i] : i \in DOMAIN active} \ {active2[i] : i \in DOMAIN active2}

\* C15: the tracker is owned by the engine alone: a tracked incident
\* changes only in step(), in particular not by the panel's Acknowledge and
\* Resolve, and an incident leaves the tracker only in a step that emits an
\* event for it showing RESOLVED.
C15_ExclusiveOwnership ==
    /\ [][TrackedChanged(tracker.active, heap, heap') # {} => EngineStep]_vars
    /\ [][\A ref \in Untracked(tracker.active, tracker'.active) :
             /\ EngineStep
             /\ \E i \in DOMAIN emitted' : emitted'[i] = ref]_vars

\* the panel resolved an incident that the tracker still holds
C15_Witness ==
    \E i \in DOMAIN tracker.active :
        /\ heap[tracker.active[i]].status = "resolved"
        /\ \E row \in DOMAIN delivered : delivered[row] = tracker.active[i]


(***************************************************************************)
(* EventBus.  _subscribers maps a topic to the list of its callbacks, in   *)
(* registration order.  The callbacks subscribed are of five kinds: one    *)
(* that only takes the payload, as the windows' _on_metrics, _on_log and   *)
(* _on_incident do, one that raises, one that subscribes a further         *)
(* callback to the topic of the delivery, one that unsubscribes itself,    *)
(* and one that returns a coroutine.                                       *)
(***************************************************************************)
MaxSubs == 2

BusTopics == {"log", "incident"}
Callbacks == {"plain", "raiser", "subscriber", "unsubscriber", "coroutine"}

\* EventBus.subscribe
EventBus_subscribe(subs, topic, callback) ==
    [subs EXCEPT ![topic] = Append(@, callback)]

\* list.remove: the first occurrence goes
ListRemove(list, x) ==
    LET first == CHOOSE i \in DOMAIN list :
                    list[i] = x /\ \A j \in 1 .. (i - 1) : list[j] # x
    IN SubSeq(list, 1, first - 1) \o SubSeq(list, first + 1, Len(list))

\* EventBus.unsubscribe
EventBus_unsubscribe(subs, topic, callback) ==
    IF subs[topic] = <<>> THEN subs
    ELSE IF \E i \in DOMAIN subs[topic] : subs[topic][i] = callback
    THEN [subs EXCEPT ![topic] = ListRemove(@, callback)]
    ELSE subs

\* result = callback(payload), and the create_task of a coroutine result;
\* d is the delivery so far: the bus's lists, the calls made, whether a
\* call raised, and the coroutines handed to the loop
Call(d, callback, topic) ==
    LET called == [d EXCEPT !.calls = Append(@, callback)]
    IN CASE callback = "raiser" -> [called EXCEPT !.raised = TRUE]
         [] callback = "subscriber" ->
              [called EXCEPT !.subs = EventBus_subscribe(@, topic, "plain")]
         [] callback = "unsubscriber" ->
              [called EXCEPT !.subs = EventBus_unsubscribe(@, topic, "unsubscriber")]
         [] callback = "coroutine" -> [called EXCEPT !.spawned = Append(@, callback)]
         [] OTHER -> called

\* for callback in callbacks, over the list given; an exception ends the loop
RECURSIVE Deliver(_, _, _)
Deliver(d, callbacks, topic) ==
    IF callbacks = <<>> \/ d.raised THEN d
    ELSE Deliver(Call(d, Head(callbacks), topic), Tail(callbacks), topic)

\* the same loop over the bus's own list, as a list iterator reads it
RECURSIVE DeliverLive(_, _, _)
DeliverLive(d, topic, i) ==
    IF i > Len(d.subs[topic]) \/ d.raised THEN d
    ELSE DeliverLive(Call(d, d.subs[topic][i], topic), topic, i + 1)

NoDelivery(subs) == [subs |-> subs, calls |-> <<>>, raised |-> FALSE, spawned |-> <<>>]

EventBus_publish_live(subs, topic) == DeliverLive(NoDelivery(subs), topic, 1)

\* EventBus.publish: the loop runs over a copy of the topic's list
EventBus_publish(subs, topic) == Deliver(NoDelivery(subs), subs[topic], topic)

(***************************************************************************)
(* A feed publishing on the bus: task 1 runs IncidentsFeed._run, whose     *)
(* tick publishes the list that step() returned, here up to MaxSteps       *)
(* events.  twin is the bus's _subscribers, pending_pub what the tick has  *)
(* still to publish, delivered the calls of the last publish, ready the    *)
(* coroutines given to the loop, clock the number of ticks made.  The      *)
(* window subscribes its callback to the log topic, and the incident topic *)
(* takes callbacks of every kind.                                          *)
(***************************************************************************)
BusInit ==
    /\ state = FeedState(DefaultSeed)
    /\ clock = 0
    /\ heap = <<>>
    /\ tracker = IncidentTracker
    /\ emitted = <<>>
    /\ baseline = 0
    /\ twin = [topic \in BusTopics |-> <<>>]
    /\ trace = <<>>
    /\ metrics = MetricsBaseline
    /\ running = [f \in FeedSet |-> f = "incidents"]
    /\ taskOf = [f \in FeedSet |-> IF f = "incidents" THEN 1 ELSE 0]
    /\ tasks = [i \in TaskIds |->
                  IF i = 1
                  THEN [feed |-> "incidents", st |-> "sleeping",
                        must_cancel |-> FALSE, wake |-> 0]
                  ELSE NoTask]
    /\ ready = <<>>
    /\ timers = <<>>
    /\ launch = [pc |-> "await_quit", feed |-> 0, how |-> "none"]
    /\ cur = 0
    /\ pending_pub = <<>>
    /\ delivered = <<>>
    /\ paused = FALSE
    /\ lastCall = "none"
    /\ ops = 0

BusRest == <<state, heap, tracker, emitted, baseline, trace, metrics, running,
             taskOf, timers, launch, paused, lastCall, ops>>

\* bus.subscribe(topic, callback), made as the window does, before the
\* feed's first tick
BusSubscribe(topic, callback) ==
    /\ cur = 0
    /\ clock = 0
    /\ Len(twin[topic]) < MaxSubs
    /\ topic = "log" => callback = "plain" /\ twin[topic] = <<>>
    /\ twin' = EventBus_subscribe(twin, topic, callback)
    /\ UNCHANGED <<clock, tasks, ready, cur, pending_pub, delivered>>

\* bus.unsubscribe(topic, callback), made while no tick executes
BusUnsubscribe(topic, callback) ==
    /\ cur = 0
    /\ twin' = EventBus_unsubscribe(twin, topic, callback)
    /\ UNCHANGED <<clock, tasks, ready, cur, pending_pub, delivered>>

\* the sleeping feed wakes and makes the events of its tick
BusTick(events) ==
    /\ cur = 0
    /\ ready = <<>>
    /\ clock < MaxSteps
    /\ tasks[1].st = "sleeping"
    /\ tasks' = [tasks EXCEPT ![1].st = "running"]
    /\ cur' = 1
    /\ clock' = clock + 1
    /\ pending_pub' = [i \in 1 .. events |-> [topic |-> "incident", payload |-> i]]
    /\ UNCHANGED <<twin, ready, delivered>>

\* bus.publish(self.topic, payload) in _run: an exception of a callback
\* leaves publish and _run, and the task ends with it
BusPublish ==
    /\ cur # 0
    /\ pending_pub # <<>>
    /\ LET event == Head(pending_pub)
           d == EventBus_publish(twin, event.topic)
       IN /\ twin' = d.subs
          /\ delivered' = [i \in DOMAIN d.calls |->
                             [callback |-> d.calls[i], topic |-> event.topic,
                              payload |-> event.payload]]
          /\ ready' = ready \o d.spawned
          /\ IF d.raised
             THEN /\ tasks' = [tasks EXCEPT ![cur].st = "failed"]
                  /\ cur' = 0
                  /\ pending_pub' = <<>>
             ELSE /\ pending_pub' = Tail(pending_pub)
                  /\ UNCHANGED <<tasks, cur>>
    /\ UNCHANGED clock

\* await asyncio.sleep(interval) at the end of the tick
BusSleep ==
    /\ cur # 0
    /\ pending_pub = <<>>
    /\ tasks' = [tasks EXCEPT ![cur].st = "sleeping"]
    /\ cur' = 0
    /\ UNCHANGED <<clock, twin, ready, pending_pub, delivered>>

\* the loop runs a coroutine that publish gave it
BusRunCoroutine ==
    /\ cur = 0
    /\ ready # <<>>
    /\ ready' = Tail(ready)
    /\ UNCHANGED <<clock, twin, tasks, cur, pending_pub, delivered>>

BusNext ==
    \/ \E topic \in BusTopics, callback \in Callbacks :
          BusSubscribe(topic, callback) /\ UNCHANGED BusRest
    \/ \E topic \in BusTopics, callback \in Callbacks :
          BusUnsubscribe(topic, callback) /\ UNCHANGED BusRest
    \/ \E events \in 0 .. MaxSteps : BusTick(events) /\ UNCHANGED BusRest
    \/ BusPublish /\ UNCHANGED BusRest
    \/ BusSleep /\ UNCHANGED BusRest
    \/ BusRunCoroutine /\ UNCHANGED BusRest

SpecBus == BusInit /\ [][BusNext]_vars

\* C16: a callback that raises during a publish made from _run does not
\* stop the feed: its task goes on, the callbacks registered after the
\* failing one are called too, and the tick goes on to the next event of
\* its list.
C16_FailingSubscriber ==
    [][BusPublish /\ (\E i \in DOMAIN twin["incident"] : twin["incident"][i] = "raiser")
         => /\ tasks'[cur].st = "running"
            /\ Len(delivered') = Len(twin["incident"])
            /\ pending_pub' = Tail(pending_pub)]_vars

\* a callback raised, and the feed's task ended with the exception
C16_Witness ==
    /\ tasks[1].st = "failed"
    /\ delivered # <<>>
    /\ delivered[Len(delivered)].callback = "raiser"

\* the number of occurrences of x in list
Count(list, x) == Cardinality({i \in DOMAIN list : list[i] = x})

\* the callbacks of list up to the first that raises, all of them if none does
UntilRaise(list) ==
    IF \E i \in DOMAIN list : list[i] = "raiser"
    THEN SubSeq(list, 1, CHOOSE i \in DOMAIN list :
                            list[i] = "raiser" /\ \A j \in 1 .. (i - 1) : list[j] # "raiser")
    ELSE list

\* C17: publish(topic, payload) calls the callbacks registered for the topic
\* when publish is called, once per registration and in registration order,
\* with the payload, and no callback of another topic (the delivery ends
\* early only at a callback that raises); the subscribe and unsubscribe
\* calls that callbacks make during the delivery leave the delivery in
\* progress as it is and are in the topic's list when publish returns, for
\* the next publish.
C17_PublishDelivery ==
    [][BusPublish =>
         LET event == Head(pending_pub)
             registered == twin[event.topic]
             called == UntilRaise(registered)
         IN /\ delivered' = [i \in DOMAIN called |->
                               [callback |-> called[i], topic |-> event.topic,
                                payload |-> event.payload]]
            /\ Count(twin'[event.topic], "plain") =
                  Count(registered, "plain") + Count(called, "subscriber")
            /\ Count(twin'[event.topic], "unsubscriber") =
                  Count(registered, "unsubscriber") - Count(called, "unsubscriber")
            /\ \A cb \in Callbacks \ {"plain", "unsubscriber"} :
                  Count(twin'[event.topic], cb) = Count(registered, cb)
            /\ \A topic \in BusTopics \ {event.topic} : twin'[topic] = twin[topic]]_vars

\* a delivery in which one callback unsubscribed itself and a later one
\* subscribed another: both were called, the list now differs from the one
\* delivered to, and the callback of the log topic was not called
C17_Witness ==
    /\ Len(delivered) = 2
    /\ delivered[1].callback = "unsubscriber"
    /\ delivered[2].callback = "subscriber"
    /\ twin["incident"] = <<"subscriber", "plain">>
    /\ twin["log"] = <<"plain">>
    /\ tasks[1].st = "running"


\* C18: in the list that step() returns, which _run publishes in order, the
\* creation events of the incidents that arrived in the step are the first
\* entries, in order of arrival, and every progression or auto-resolve
\* event comes after all of them.
C18_ArrivalsFirst ==
    [][EngineStep =>
         LET created == Len(heap') - Len(heap)
         IN /\ CreationEvents(emitted', Len(heap)) = 1 .. created
            /\ \A i \in 1 .. created : emitted'[i] = Len(heap) + i]_vars

\* a step that created an incident, still NEW, and advanced an older one
C18_Witness ==
    \E i, j \in DOMAIN emitted :
        /\ i < j
        /\ heap[emitted[i]].status = "new"
        /\ heap[emitted[i]].timestamp = clock
        /\ heap[emitted[j]].timestamp < clock


\* the events that step() owes to the object ref: one if the step created
\* it, and one if its status after the step differs from the one it had
\* before, or from NEW if the step created it
EventsDue(ref, hp, hp2) ==
    IF ref > Len(hp)
    THEN 1 + (IF hp2[ref].status # "new" THEN 1 ELSE 0)
    ELSE IF hp2[ref].status # hp[ref].status THEN 1 ELSE 0

\* C19: step() emits one event for each incident it creates and one for
\* each status transition it performs, and no other: an incident whose roll
\* failed is not in the list.
C19_EmissionRule ==
    [][EngineStep =>
         /\ \A ref \in DOMAIN heap' : Count(emitted', ref) = EventsDue(ref, heap, heap')
         /\ \A i \in DOMAIN emitted' : emitted'[i] \in DOMAIN heap']_vars

\* a step advanced one tracked incident and left another, whose roll
\* failed, as it was and out of the list
C19_Witness ==
    /\ \E j \in DOMAIN emitted :
          /\ heap[emitted[j]].status \in {"acknowledged", "in_progress"}
          /\ heap[emitted[j]].last_update = clock
    /\ \E i \in DOMAIN tracker.active :
          /\ Count(emitted, tracker.active[i]) = 0
          /\ heap[tracker.active[i]].last_update < clock


(***************************************************************************)
(* MetricsFeed alone: sample() and reset() in any order, from every seed   *)
(* of the generator.  trace holds the last sample returned and the levels  *)
(* that sample() computed before clipping them.                            *)
(***************************************************************************)
MetricsInit ==
    /\ state \in {FeedState(s) : s \in Seeds}
    /\ clock = 0
    /\ heap = <<>>
    /\ tracker = IncidentTracker
    /\ emitted = <<>>
    /\ baseline = 0
    /\ twin = <<>>
    /\ trace = <<>>
    /\ NothingScheduled

\* self.sample()
MetricsSample ==
    LET s == MetricsFeed_sample(state.rng, metrics)
        d == MetricsFeed_drift(state.rng)
    IN /\ state' = [state EXCEPT !.rng = s.rng]
       /\ metrics' = s.metrics
       /\ trace' = <<[timestamp |-> clock, cpu_percent |-> s.metrics.cpu,
                      memory_percent |-> s.metrics.mem],
                     [cpu |-> metrics.cpu + d.drift[1],
                      mem |-> metrics.mem + d.drift[2]]>>

\* MetricsFeed.reset(): the feed was not started, stop() changes nothing
MetricsFeed_reset ==
    /\ metrics' = MetricsBaseline
    /\ UNCHANGED <<state, trace>>

\* FeedsController.reset(seed) as far as the metrics feed goes
MetricsReseed(seed) ==
    /\ state' = FeedState_reset(state, seed)
    /\ metrics' = MetricsBaseline
    /\ UNCHANGED trace

MetricsRest == <<clock, heap, tracker, emitted, baseline, twin, running, taskOf,
                 tasks, ready, timers, launch, cur, pending_pub, delivered,
                 paused, lastCall, ops>>

MetricsNext ==
    \/ MetricsSample /\ UNCHANGED MetricsRest
    \/ MetricsFeed_reset /\ UNCHANGED MetricsRest
    \/ \E seed \in Seeds \cup {-1} : MetricsReseed(seed) /\ UNCHANGED MetricsRest

SpecMetrics == MetricsInit /\ [][MetricsNext]_vars

\* levels within the bounds of sample()
WithinBounds(m) ==
    /\ m.cpu >= 1 /\ m.cpu <= 98
    /\ m.mem >= 5 /\ m.mem <= 95

\* C20: after any sequence of sample() and reset(), the levels the feed
\* stores, and those of every sample it returned, are within bounds: cpu in
\* [1, 98] and memory in [5, 95]; and from any cpu level and any memory
\* level within bounds, whatever the drift drawn, the next sample is within
\* bounds too.
C20_BoundedSampling ==
    /\ WithinBounds(metrics)
    /\ trace # <<>> =>
          WithinBounds([cpu |-> trace[1].cpu_percent, mem |-> trace[1].memory_percent])
    /\ \A cpu \in 1 .. 98 :
          WithinBounds(MetricsFeed_sample(state.rng, [metrics EXCEPT !.cpu = cpu]).metrics)
    /\ \A mem \in 5 .. 95 :
          WithinBounds(MetricsFeed_sample(state.rng, [metrics EXCEPT !.mem = mem]).metrics)

\* a sample whose drift, spike included, took the cpu level above 98: the
\* sample and the stored level are 98
C20_Witness ==
    /\ trace # <<>>
    /\ trace[2].cpu > 98
    /\ trace[1].cpu_percent = 98
    /\ metrics.cpu = 98


\* the members of a list
Members(list) == {list[i] : i \in DOMAIN list}

\* an incident whose fields are within their domains
WellFormed(inc) ==
    /\ inc.severity \in Members(IncidentSeverity)
    /\ inc.status \in Members(IncidentStatus)
    /\ inc.category \in Members(INCIDENT_TYPES)
    /\ inc.region \in Members(REGIONS)
    /\ inc.autoresolve_after >= AutoresolveLow
    /\ inc.autoresolve_after <= AutoresolveHigh
    /\ inc.location[1] >= 0 /\ inc.location[1] < GridWidth
    /\ inc.location[2] >= 0 /\ inc.location[2] < GridHeight

\* C21: every incident in the list of a step() has a severity and a status
\* of the enumerations, a category and a region of the fixed lists, a
\* deadline within the configured bounds and a location within the grid.
C21_WellFormed ==
    \A i \in DOMAIN emitted : WellFormed(heap[emitted[i]])

\* a step emitted an incident placed in the last cell of the grid, with the
\* longest deadline the draw gives, and already advanced
C21_Witness ==
    \E i \in DOMAIN emitted :
        /\ heap[emitted[i]].location = <<GridWidth - 1, GridHeight - 1>>
        /\ heap[emitted[i]].autoresolve_after = AutoresolveHigh - 1
        /\ heap[emitted[i]].status = "in_progress"


\* the log records the two runs published, each <<level, message, incident_id>>
LogsPublished ==
    UNION {{twin[r].out.logs[i] : i \in DOMAIN twin[r].out.logs} : r \in {1, 2}}

\* a log record <<level, message, incident_id>> as sample() promises it
LogRecordOk(record) ==
    /\ record[1] \in {"INFO", "WARN", "ERROR"}
    /\ record[1] = "INFO" => record[3] = <<>>
    /\ record[3] # <<>> =>
          /\ record[3][1] = "I"
          /\ Len(Digits(record[3][2])) = 3

\* C22: every record of LogsFeed.sample() has a level among INFO, WARN and
\* ERROR; an INFO record has no incident identifier; an identifier attached
\* is the letter I followed by a number of three digits.  This holds of the
\* records the runs published and of the record that sample() would return
\* from any state of the generator.
C22_LogRecords ==
    /\ \A record \in LogsPublished : LogRecordOk(record)
    /\ \A g \in Seeds :
          LET r == LogsFeed_sample(g, clock).record
          IN LogRecordOk(<<r.level, r.message, r.incident_id>>)

\* a run published an INFO record, a record of another level without
\* identifier and one with an identifier
C22_Witness ==
    /\ \E record \in LogsPublished : record[1] = "INFO"
    /\ \E record \in LogsPublished : record[1] # "INFO" /\ record[3] = <<>>
    /\ \E record \in LogsPublished : record[1] # "INFO" /\ record[3] # <<>>


(***************************************************************************)
(* config.py and the start of app._launch.  A configuration file is        *)
(* [kind, root]: it is missing, unparsable, or present with the root that  *)
(* yaml.safe_load returns: None for an empty document, a list, or a        *)
(* mapping [kind |-> "mapping", ...] giving each field a value, or Absent  *)
(* when the file has no such key.  In this specification twin is the       *)
(* file and trace the position of _launch: its pc, the Config loaded, the  *)
(* exit code, whether the FeedsController was constructed, and the ticks   *)
(* its feeds made.                                                         *)
(***************************************************************************)
Absent == <<>>
Rates == {Absent, <<0>>, <<1>>}

Mappings ==
    [kind : {"mapping"},
     metrics_hz : Rates, logs_per_sec : Rates, incidents_per_min : Rates,
     incident_autoresolve_sec : {<<0, 1>>, <<1, 1>>, <<2, 1>>, <<1, 3>>},
     grid : {<<1, 2>>, <<2, 1>>, <<2, 2>>},
     size : {<<639, 480>>, <<640, 479>>, <<640, 480>>}]

\* a mapping without keys
EmptyMapping ==
    [kind |-> "mapping", metrics_hz |-> Absent, logs_per_sec |-> Absent,
     incidents_per_min |-> Absent, incident_autoresolve_sec |-> Absent,
     grid |-> Absent, size |-> Absent]

\* a root that is no mapping has no keys either
Roots ==
    {[EmptyMapping EXCEPT !.kind = k] : k \in {"none", "empty_list", "list"}}
        \cup Mappings

ConfigFiles ==
    {[kind |-> k, root |-> [EmptyMapping EXCEPT !.kind = "none"]] :
        k \in {"missing", "unparsable"}}
        \cup {[kind |-> "present", root |-> root] : root \in Roots}

\* the truth value of a YAML root in `yaml.safe_load(handle) or {}`
Truthy(root) == root.kind \in {"list", "mapping"}

\* _load_yaml: the dictionary returned, or ConfigError raised
load_yaml(file) ==
    LET data == IF Truthy(file.root) THEN file.root ELSE EmptyMapping
    IN [raised |-> \/ file.kind \in {"missing", "unparsable"}
                   \/ data.kind # "mapping",
        data |-> data]

\* the field defaults of WindowConfig, FeedConfig and MapConfig
WithDefaults(data) ==
    [metrics_hz |-> IF data.metrics_hz = Absent THEN 10 ELSE data.metrics_hz[1],
     logs_per_sec |-> IF data.logs_per_sec = Absent THEN 6 ELSE data.logs_per_sec[1],
     incidents_per_min |->
        IF data.incidents_per_min = Absent THEN 8 ELSE data.incidents_per_min[1],
     incident_autoresolve_sec |->
        IF data.incident_autoresolve_sec = Absent THEN <<30, 120>>
        ELSE data.incident_autoresolve_sec,
     grid |-> IF data.grid = Absent THEN <<20, 12>> ELSE data.grid,
     size |-> IF data.size = Absent THEN <<1600, 900>> ELSE data.size]

\* WindowConfig._validate_size
validate_size(value) == ~(value[1] < 640 \/ value[2] < 480)

\* FeedConfig._validate_autoresolve
validate_autoresolve(value) ==
    /\ ~(value[1] <= 0 \/ value[2] <= 0)
    /\ ~(value[1] >= value[2])

\* MapConfig._validate_grid
validate_grid(value) == ~(value[1] <= 1 \/ value[2] <= 1)

\* Config.model_validate succeeds
model_validate(config) ==
    /\ config.metrics_hz > 0
    /\ config.logs_per_sec > 0
    /\ config.incidents_per_min > 0
    /\ validate_autoresolve(config.incident_autoresolve_sec)
    /\ validate_grid(config.grid)
    /\ validate_size(config.size)

\* load_config: the Config returned, or ConfigError raised
load_config(file) ==
    LET loaded == load_yaml(file)
    IN [raised |-> loaded.raised \/ ~model_validate(WithDefaults(loaded.data)),
        config |-> WithDefaults(loaded.data)]

ConfigInit ==
    /\ twin \in ConfigFiles
    /\ trace = [pc |-> "load_config", config |-> <<>>, exit |-> -1,
                feeds |-> FALSE, ticks |-> 0]
    /\ state = FeedState(DefaultSeed)
    /\ clock = 0
    /\ heap = <<>>
    /\ tracker = IncidentTracker
    /\ emitted = <<>>
    /\ baseline = 0
    /\ NothingScheduled

\* _launch up to the loading of the configuration
launch_load_config ==
    /\ trace.pc = "load_config"
    /\ LET loaded == load_config(twin)
       IN trace' = IF loaded.raised
                   THEN [trace EXCEPT !.pc = "returned", !.exit = 1]
                   ELSE [trace EXCEPT !.pc = "load_theme", !.config = loaded.config]

\* _launch: load_theme succeeds, or fails with ThemeError
launch_load_theme(loaded) ==
    /\ trace.pc = "load_theme"
    /\ trace' = IF loaded THEN [trace EXCEPT !.pc = "construct"]
                ELSE [trace EXCEPT !.pc = "returned", !.exit = 1]

\* _launch: the controller, bus and window are built and the simulation started
launch_construct ==
    /\ trace.pc = "construct"
    /\ trace' = [trace EXCEPT !.pc = "await_quit", !.feeds = TRUE]

\* a feed of the started controller ticks
launch_tick ==
    /\ trace.pc = "await_quit"
    /\ trace.ticks < MaxSteps
    /\ trace' = [trace EXCEPT !.ticks = @ + 1]

\* the application quits
launch_quit ==
    /\ trace.pc = "await_quit"
    /\ trace' = [trace EXCEPT !.pc = "returned", !.exit = 0]

ConfigNext ==
    /\ \/ launch_load_config
       \/ \E loaded \in BOOLEAN : launch_load_theme(loaded)
       \/ launch_construct
       \/ launch_tick
       \/ launch_quit
    /\ UNCHANGED <<engineVars, twin, schedVars>>

SpecConfig == ConfigInit /\ [][ConfigNext]_vars

\* the files the configuration rules reject: a missing file, unparsable
\* YAML, a root that is not a mapping, a rate that is not positive,
\* auto-resolve bounds that are not positive or not low < high, a grid
\* dimension of 1 or less, a window smaller than 640x480
Rejected(file) ==
    \/ file.kind \in {"missing", "unparsable"}
    \/ /\ file.kind = "present"
       /\ \/ file.root.kind \in {"empty_list", "list"}
          \/ /\ file.root.kind = "mapping"
             /\ LET c == WithDefaults(file.root)
                    low == c.incident_autoresolve_sec[1]
                    high == c.incident_autoresolve_sec[2]
                IN \/ c.metrics_hz <= 0 \/ c.logs_per_sec <= 0 \/ c.incidents_per_min <= 0
                   \/ low <= 0 \/ high <= 0 \/ ~(low < high)
                   \/ c.grid[1] <= 1 \/ c.grid[2] <= 1
                   \/ c.size[1] < 640 \/ c.size[2] < 480

\* C23: a file that the configuration rules reject makes load_config raise
\* ConfigError and the application return 1: no FeedsController is
\* constructed and no feed ticks.
C23_ConfigRejected ==
    Rejected(twin) =>
        /\ load_config(twin).raised
        /\ ~trace.feeds
        /\ trace.ticks = 0
        /\ trace.pc = "returned" => trace.exit = 1

\* the feeds tick although the root of the configuration file is a list
C23_Witness ==
    /\ twin.kind = "present"
    /\ twin.root.kind = "empty_list"
    /\ trace.feeds
    /\ trace.ticks > 0


\* the generator after n draws
RECURSIVE RngAfter(_, _)
RngAfter(g, n) == IF n = 0 THEN g ELSE RngAfter(RngNext(g), n - 1)

\* the tracked incidents that a step at the present time finds eligible to
\* auto-resolve, and those that it has to roll for
Eligible ==
    {ref \in Members(tracker.active) :
        heap[ref].status # "resolved" /\ can_autoresolve(heap[ref], clock)}
Rolled ==
    {ref \in Members(tracker.active) :
        heap[ref].status # "resolved" /\ ~can_autoresolve(heap[ref], clock)}

\* C24: in a step, a tracked incident that is eligible to auto-resolve goes
\* to RESOLVED whatever its status was, and no roll is drawn for it, nor for
\* a tracked incident that is RESOLVED already; one roll is drawn for each
\* other tracked incident, those created in the step included.  The draws
\* of a step are then one for the arrivals, six for each incident created
\* and the rolls.
C24_AutoResolvePriority ==
    [][EngineStep =>
         LET created == Len(heap') - Len(heap)
         IN /\ \A ref \in Eligible :
                  /\ heap'[ref].status = "resolved"
                  /\ Count(emitted', ref) = 1
            /\ state'.rng = RngAfter(state.rng,
                                     1 + 6 * created + created + Cardinality(Rolled))]_vars

\* a step found a tracked incident eligible while it was still NEW, and
\* resolved it without passing through the other states
C24_Witness ==
    \E i \in DOMAIN emitted :
        LET inc == heap[emitted[i]]
        IN /\ inc.status = "resolved"
           /\ ~inc.acknowledged
           /\ inc.last_update = clock
           /\ inc.timestamp < clock


\* the incidents that are RESOLVED
ResolvedObjects == {ref \in DOMAIN heap : heap[ref].status = "resolved"}

\* C25: RESOLVED is terminal.  advance_status leaves a RESOLVED status as it
\* is; no step, reset or passing of time changes the status of a RESOLVED
\* incident; an incident that a step resolved is out of the tracker when
\* the step returns; and a step never emits an incident that was RESOLVED
\* before it.
C25_ResolvedTerminal ==
    /\ [](advance_status("resolved") = "resolved")
    /\ [](\A ref \in ResolvedObjects :
             Incident_advance_status(heap[ref], clock).status = "resolved")
    /\ [][\A ref \in ResolvedObjects : heap'[ref].status = "resolved"]_vars
    /\ [][EngineStep =>
            /\ \A ref \in DOMAIN heap' :
                  heap'[ref].status = "resolved" => ref \notin Members(tracker'.active)
            /\ \A i \in DOMAIN emitted' : emitted'[i] \notin ResolvedObjects]_vars

\* an incident was resolved and purged in an earlier tick, and a later tick
\* has emitted another incident
C25_Witness ==
    \E ref \in ResolvedObjects :
        /\ heap[ref].last_update < clock
        /\ ref \notin Members(tracker.active)
        /\ ref \notin Members(emitted)
        /\ \E i \in DOMAIN emitted : heap[emitted[i]].last_update = clock


(***************************************************************************)
(* The incidents feed ticking: IncidentsFeed._run makes one step() every   *)
(* second, as long as it is not stopped.  cur is 1 between the step of the *)
(* present second and the end of the sleep that follows it.                *)
(***************************************************************************)
\* for incident in self.step(): ...
TickingStep ==
    /\ cur = 0
    /\ EngineStep
    /\ cur' = 1

\* await asyncio.sleep(interval), interval = 1.0
TickingSleep ==
    /\ cur = 1
    /\ clock <= MaxClock
    /\ clock' = clock + 1
    /\ cur' = 0
    /\ UNCHANGED <<state, heap, tracker, emitted, baseline>>

TickingNext ==
    /\ TickingStep \/ TickingSleep
    /\ UNCHANGED <<twinVars, metrics, running, taskOf, tasks, ready, timers, launch,
                   pending_pub, delivered, paused, lastCall, ops>>

SpecTicking == EngineInit /\ [][TickingNext]_vars

\* C26: while the feed ticks every second, an incident with deadline d that
\* is in the tracker was created no more than 3 * d - 2 seconds ago, and no
\* more than 3 * d - 3 once the step of the present second is made: within
\* three deadlines every incident has left the tracker, whatever the rolls;
\* and an incident leaves the tracker only in a step that emits it RESOLVED.
C26_EventualResolution ==
    /\ [](\A ref \in Members(tracker.active) :
             clock - heap[ref].timestamp <= 3 * heap[ref].autoresolve_after - 2 - cur)
    /\ [][\A ref \in Members(tracker.active) \ Members(tracker'.active) :
             /\ heap'[ref].status = "resolved"
             /\ ref \in Members(emitted')]_vars

\* an incident with deadline 2 outlived its first deadline, a status change
\* having restarted the countdown: created three seconds ago, it is resolved
\* and purged by the step of this second
C26_Witness ==
    \E ref \in Members(emitted) :
        /\ heap[ref].status = "resolved"
        /\ heap[ref].autoresolve_after = 2
        /\ heap[ref].last_update = clock
        /\ clock - heap[ref].timestamp = 3
        /\ ref \notin Members(tracker.active)

\* C27: in one step() every incident makes at most one status transition,
\* stepwise to the next state or straight to RESOLVED, and is appended at
\* most once by the sweep: an incident that was tracked before the step is
\* in the list at most once, and one created in the step, which the sweep
\* of the same step evaluates too, at most twice, its creation first.
C27_OneTransitionPerStep ==
    [][EngineStep =>
         /\ \A ref \in DOMAIN heap :
               /\ heap'[ref].status \in
                     {heap[ref].status, advance_status(heap[ref].status), "resolved"}
               /\ Count(emitted', ref) <= 1
         /\ \A ref \in DOMAIN heap' \ DOMAIN heap :
               /\ heap'[ref].status \in {"new", advance_status("new"), "resolved"}
               /\ Count(emitted', ref) <= 2
               /\ Count(emitted', ref) = 2 <=> heap'[ref].status # "new"]_vars

\* a step created an incident and advanced it, so that it is twice in the
\* list, and advanced an older incident, which is in the list once
C27_Witness ==
    /\ \E ref \in Members(emitted) :
          Count(emitted, ref) = 2 /\ heap[ref].timestamp = clock
    /\ \E ref \in Members(emitted) :
          Count(emitted, ref) = 1 /\ heap[ref].timestamp < clock


\* C28: whenever the status of an incident changes, its last_update is set
\* to the present time in the same step, and while the status stays as it
\* is, so does last_update.
C28_LastUpdateRefreshed ==
    [][\A ref \in DOMAIN heap :
          IF heap'[ref].status # heap[ref].status
          THEN heap'[ref].last_update = clock
          ELSE heap'[ref].last_update = heap[ref].last_update]_vars

\* the status of an incident was changed a while after its creation and its
\* last_update is still the time of its creation
C28_Witness ==
    \E ref \in DOMAIN heap :
        /\ heap[ref].status = "resolved"
        /\ heap[ref].last_update = heap[ref].timestamp
        /\ heap[ref].timestamp < clock


\* the fields of an incident that are given at its creation
CreationFields(inc) ==
    <<inc.identifier, inc.timestamp, inc.category, inc.severity, inc.region,
      inc.description, inc.autoresolve_after, inc.location>>

\* C29: a step changes only the lifecycle fields of an incident: the
\* identifier, creation timestamp, category, severity, region, description,
\* deadline and location of every incident stay as they were made, through
\* stepwise transitions and auto-resolve alike.
C29_ProgressionFrame ==
    [][\A ref \in DOMAIN heap :
          CreationFields(heap'[ref]) = CreationFields(heap[ref])]_vars

\* an incident was advanced by a roll and resolved more than a second after
\* its creation
C29_Witness ==
    \E ref \in DOMAIN heap :
        /\ heap[ref].status = "resolved"
        /\ heap[ref].acknowledged
        /\ heap[ref].last_update > heap[ref].timestamp + 1



(***************************************************************************)
(* The overview panel.  The update MainWindow._on_incident posts hands the *)
(* published object to IncidentsPanel.add_incident and then to             *)
(* OverviewPanel.update_incident.  The panel keeps, in trace, _incidents   *)
(* (one entry per identifier, each entry holding the object it was last    *)
(* given), the two Counters (a missing key counts 0), _resolution_times    *)
(* and _start_time (-1 is None).                                           *)
(***************************************************************************)
\* OverviewPanel.__init__
OverviewPanel ==
    [incidents |-> <<>>,
     severity_counts |-> [s \in Members(IncidentSeverity) |-> 0],
     status_counts |-> [s \in Members(IncidentStatus) |-> 0],
     resolution_times |-> <<>>,
     start_time |-> -1]

\* OverviewPanel._record_resolution_time
record_resolution_time(ov, inc) ==
    LET timestamp == inc.last_update
        start == IF ov.start_time = -1 THEN timestamp ELSE ov.start_time
        delta == IF timestamp - start < 0 THEN 0 ELSE timestamp - start
    IN [ov EXCEPT !.start_time = start,
                  !.resolution_times = Append(@, delta)]

\* OverviewPanel.update_incident: `previous` is the object the panel holds
\* for the identifier, read when the update runs
update_incident(ov, hp, ref) ==
    LET incident == hp[ref]
        known == {idx \in DOMAIN ov.incidents :
                     hp[ov.incidents[idx]].identifier = incident.identifier}
        isNew == known = {}
        previous == hp[ov.incidents[CHOOSE idx \in known : TRUE]]
        severity ==
            IF isNew
            THEN [ov.severity_counts EXCEPT ![incident.severity] = @ + 1]
            ELSE IF previous.severity # incident.severity
            THEN [[ov.severity_counts EXCEPT ![previous.severity] = @ - 1]
                      EXCEPT ![incident.severity] = @ + 1]
            ELSE ov.severity_counts
        moved == ~isNew /\ previous.status # incident.status
        status ==
            IF isNew
            THEN [ov.status_counts EXCEPT ![incident.status] = @ + 1]
            ELSE IF moved
            THEN [[ov.status_counts EXCEPT ![previous.status] =
                                               IF @ - 1 < 0 THEN 0 ELSE @ - 1]
                      EXCEPT ![incident.status] = @ + 1]
            ELSE ov.status_counts
        counted == [ov EXCEPT !.severity_counts = severity,
                              !.status_counts = status]
        timed == IF incident.status = "resolved" /\ (isNew \/ moved)
                 THEN record_resolution_time(counted, incident)
                 ELSE counted
    IN [timed EXCEPT !.incidents = upsert(ov.incidents, hp, ref)]

\* the window is built with its panels and the default-seed controller
OverviewInit ==
    /\ state = FeedState(DefaultSeed)
    /\ clock = 0
    /\ heap = <<>>
    /\ tracker = IncidentTracker
    /\ emitted = <<>>
    /\ baseline = 0
    /\ twin = <<>>
    /\ trace = OverviewPanel
    /\ NothingScheduled

\* a posted update runs: add_incident, then update_incident
MainWindow_on_incident_update_overview ==
    /\ pending_pub # <<>>
    /\ delivered' = upsert(delivered, heap, Head(pending_pub))
    /\ trace' = update_incident(trace, heap, Head(pending_pub))
    /\ pending_pub' = Tail(pending_pub)
    /\ UNCHANGED engineVars

OverviewRest == <<twin, metrics, running, taskOf, tasks, ready, timers,
                  launch, cur, paused, lastCall, ops>>

OverviewNext ==
    \/ PanelTick /\ UNCHANGED <<OverviewRest, trace>>
    \/ MainWindow_on_incident_update_overview /\ UNCHANGED OverviewRest
    \/ Advance /\ UNCHANGED <<OverviewRest, trace, pending_pub, delivered>>

SpecOverview == OverviewInit /\ [][OverviewNext]_vars

\* the incidents the panel knows whose object shows the status
KnownWithStatus(s) ==
    {idx \in DOMAIN trace.incidents : heap[trace.incidents[idx]].status = s}

\* C30: once the posted updates have run, the count the overview panel
\* records for each status equals the number of known incidents whose latest
\* status is that status, and the per-status counts sum to the number of
\* known incidents, the events being the engine's own objects.
C30_OverviewCounts ==
    pending_pub = <<>> =>
        /\ \A s \in Members(IncidentStatus) :
              trace.status_counts[s] = Cardinality(KnownWithStatus(s))
        /\ trace.status_counts["new"] + trace.status_counts["acknowledged"]
             + trace.status_counts["in_progress"] + trace.status_counts["resolved"]
             = Len(trace.incidents)

\* the panel was given an incident when it was created and again after a
\* transition, and every posted update has run
C30_Witness ==
    /\ pending_pub = <<>>
    /\ \E idx \in DOMAIN trace.incidents :
          /\ heap[trace.incidents[idx]].status # "new"
          /\ heap[trace.incidents[idx]].timestamp < heap[trace.incidents[idx]].last_update

====
